---- MODULE Spec2Model ----
(***************************************************************************)
(* openstack-port-cni: the daemon's HTTP handlers (/health, /add, /del,    *)
(* /check), the Neutron control plane they call, and the thin CNI client   *)
(* (cmdAdd, cmdDel, cmdCheck, daemonRequest), the daemon process from its  *)
(* start to its exit, and the single-binary plugin, which calls the        *)
(* control plane itself.                                                   *)
(*                                                                         *)
(* Strings the code slices or concatenates (container IDs, port names) are *)
(* sequences of one-character strings; opaque strings are TLA+ strings.    *)
(***************************************************************************)
EXTENDS Integers, Sequences, FiniteSets, TLC

VARIABLES
    ports,      \* the control plane's ports: a set of [id, name, network_id],
                \* each with the container it was attached for (attached_for,
                \* which the control plane does not hold: kept for the
                \* properties)
    nextID,     \* the identity the control plane gives the next created port
    conns,      \* per connection slot: the request a handler is serving
    cmds,       \* per plugin process: the CNI command it is running
    nmIn,       \* a container ID handed to the name derivation
    nmOut,      \* the names the three handlers derived from nmIn
    daemon,     \* the daemon process: its phase, socket file, listener, peers
    rq,         \* a response handed to daemonRequest, and the error it returned
    wire,       \* an envelope of package api, its JSON text, and what is
                \* decoded from that text
    bin         \* the single-binary plugin's process: the CNI command it is
                \* running against the control plane

vars == <<ports, nextID, conns, cmds, nmIn, nmOut, daemon, rq, wire, bin>>

----------------------------------------------------------------------------
(* Bounds *)

MaxConns == 2        \* connections served at the same time
MaxPortID == 3       \* port identities the control plane hands out
MaxInitPorts == 2    \* ports left by earlier attaches when the daemon starts
MaxIdLen == 13       \* longest container ID given to the name derivation
MaxCmds == 1         \* plugin processes running at the same time
MaxStrLen == 1       \* longest string held by a field of an envelope
MaxFilled == 2       \* string fields of an envelope that are not empty
MaxRestarts == 1     \* times the daemon process is started again

Slots == 1..MaxConns
Procs == 1..MaxCmds

----------------------------------------------------------------------------
(* Names *)

NameLen == 12

Prefix == <<"k", "8", "s", "-", "p", "o", "d", "-">>

\* A plausible slip: the truncation keeps one character too few.
portNameShort(containerID) ==
    LET id == IF Len(containerID) > NameLen
              THEN SubSeq(containerID, 1, NameLen - 1)
              ELSE containerID
    IN  Prefix \o id

portName(containerID) ==
    LET id == IF Len(containerID) > NameLen
              THEN SubSeq(containerID, 1, NameLen)
              ELSE containerID
    IN  Prefix \o id

\* A plausible slip: /del looks for the name made of the whole container ID.
DelNameUntruncated(req) == Prefix \o req.container_id

\* The single-binary plugin, in cmdAdd, cmdDel and cmdCheck:
\* fmt.Sprintf("k8s-pod-%s", args.ContainerID[:12]). Slicing a string
\* shorter than 12 panics (slice bounds out of range) and no name is derived.
pluginPortName(containerID) ==
    IF Len(containerID) < NameLen
    THEN [panics |-> TRUE, name |-> <<>>]
    ELSE [panics |-> FALSE, name |-> Prefix \o SubSeq(containerID, 1, NameLen)]

\* The name each handler derives for its request.
AddName(req) == portName(req.container_id)
DelName(req) == portName(req.container_id)
CheckName(req) == portName(req.container_id)

----------------------------------------------------------------------------
(* Inputs *)

CidA == <<"a", "b", "c", "d", "e", "f", "1", "2", "3", "4", "5", "6", "7">>
CidC == <<"a", "b", "c">>

\* What a request body looks like to json.Decoder.Decode, its shape: "object",
\* one JSON object; "trailing", one JSON object followed by further bytes;
\* "invalid", bytes that are no JSON value.
NoBody == [shape |-> "none", container_id |-> <<>>, network_id |-> "",
           subnet_id |-> ""]

\* The objects a body may hold: every field given, one field empty, or none
\* given at all ("{}").
Fields(subnets) ==
    {f \in {<<>>, CidA, CidC} \X {"", "net-1"} \X subnets :
        LET hasSubnet == subnets # {""}
            empties == (IF f[1] = <<>> THEN 1 ELSE 0)
                       + (IF f[2] = "" THEN 1 ELSE 0)
                       + (IF hasSubnet /\ f[3] = "" THEN 1 ELSE 0)
        IN  \/ empties = 0
            \/ empties = 1 /\ f[1] \in {<<>>, CidA}
            \/ empties = (IF hasSubnet THEN 3 ELSE 2)}

Body(shape, f) ==
    [shape |-> shape, container_id |-> f[1], network_id |-> f[2],
     subnet_id |-> f[3]]

BodiesOf(subnets) ==
    {[NoBody EXCEPT !.shape = "invalid"]}
    \cup {Body("object", f) : f \in Fields(subnets)}
    \cup {Body("trailing", f) :
            f \in {g \in Fields(subnets) : g[1] \in {<<>>, CidA}}}

\* DelRequest and CheckRequest have no subnet_id: an extra key is ignored.
BodiesNoSubnet == BodiesOf({""})

NoReq == [container_id |-> <<>>, network_id |-> "", subnet_id |-> ""]

\* json.NewDecoder(r.Body).Decode(&req): reads the first JSON value of the body
\* and stops there; whatever follows that value is never looked at.
Decode(body) ==
    IF body.shape \in {"object", "trailing"}
    THEN [err |-> FALSE,
          req |-> [container_id |-> body.container_id,
                   network_id |-> body.network_id,
                   subnet_id |-> body.subnet_id]]
    ELSE [err |-> TRUE, req |-> NoReq]

----------------------------------------------------------------------------
(* Responses *)

NoResp == [kind |-> "none", error |-> <<>>, port_id |-> 0, mac_address |-> <<>>,
           ip_address |-> "", prefix_length |-> <<>>, gateway_ip |-> "",
           ok |-> FALSE, exists |-> FALSE]

\* api.ErrorResponse{Error: msg}
ErrorResponse(msg) == [NoResp EXCEPT !.kind = "error", !.error = msg]

\* The text of an upstream (control plane) error.
Upstream == "upstream"

NoPort == [id |-> 0, mac_address |-> <<>>, fixed_ips |-> <<>>]

IdleConn == [pc |-> "idle", route |-> "", method |-> "", body |-> NoBody,
             req |-> NoReq, port |-> NoPort, listed |-> <<>>, i |-> 0,
             calls |-> <<>>, status |-> 0, resp |-> NoResp, pred |-> {},
             run |-> 0]

\* writeJSON: the status and the body are written, and the handler returns
\* (every path that writes returns right after). The handler's locals are
\* kept as they were at the return, for the properties to refer to.
writeJSON(c, status, v) ==
    [c EXCEPT !.pc = "done", !.status = status, !.resp = v]

\* A plausible slip: the cause is logged and a fixed message is answered.
writeErrorFixedMessage(c, status, msg) ==
    writeJSON(c, status, ErrorResponse(<<"request failed">>))

writeError(c, status, msg) == writeJSON(c, status, ErrorResponse(msg))

Call(op, id, out) == [op |-> op, id |-> id, out |-> out]

----------------------------------------------------------------------------
(* The control plane (Neutron), as the handlers' calls see it *)

PortIDs == {p.id : p \in ports}

RECURSIVE ListOrder(_)
\* The listed ports as a sequence, in the order of their creation.
ListOrder(S) ==
    IF S = {} THEN <<>>
    ELSE LET x == CHOOSE y \in S : \A z \in S : y.id <= z.id
         IN  <<x>> \o ListOrder(S \ {x})

\* ports.List with ListOpts{Name, NetworkID}: the ports with that name on that
\* network.
ListPorts(name, network_id) ==
    ListOrder({p \in ports : p.name = name /\ p.network_id = network_id})

MacOf(id) == <<"fa:16:3e", id>>

\* The fixed addresses the control plane may give a port created for a subnet.
FixedIPChoices(subnet_id) ==
    { <<[subnet_id |-> subnet_id, ip_address |-> "10.0.0.5"]>>,
      <<[subnet_id |-> "sub-other", ip_address |-> "10.9.0.9"],
        [subnet_id |-> subnet_id, ip_address |-> "10.0.0.5"]>>,
      <<[subnet_id |-> subnet_id, ip_address |-> "10.0.0.5"],
        [subnet_id |-> subnet_id, ip_address |-> "10.0.0.6"]>>,
      <<[subnet_id |-> "sub-other", ip_address |-> "10.9.0.9"]>>,
      <<>> }

\* The subnet descriptors subnets.Get may return.
SubnetChoices ==
    { [cidr |-> <<"10.0.0.0", "/", "24">>, gateway_ip |-> "10.0.0.1"],
      [cidr |-> <<"10.0.0.0">>, gateway_ip |-> "10.0.0.1"] }

\* What a delete of port id can answer: a port that is gone answers 404.
DeleteOutcomes(id) ==
    IF id \in PortIDs THEN {"ok", "err"} ELSE {"404", "err"}

PortsAfterDelete(id, out) ==
    IF out = "ok" THEN {p \in ports : p.id # id} ELSE ports

----------------------------------------------------------------------------
(* Pure steps of the handlers *)

\* strings.SplitN(s, "/", 2) on a string given as its pieces.
SplitN2(s) ==
    IF \E k \in 1..Len(s) : s[k] = "/"
    THEN LET k == CHOOSE j \in 1..Len(s) :
                      s[j] = "/" /\ \A h \in 1..(j - 1) : s[h] # "/"
         IN  <<SubSeq(s, 1, k - 1), SubSeq(s, k + 1, Len(s))>>
    ELSE <<s>>

\* Extract prefix length from CIDR.
PrefixLength(cidr) ==
    LET parts == SplitN2(cidr)
    IN  IF Len(parts) = 2 THEN parts[2] ELSE <<>>

\* A plausible slip: the port's first address is taken, whatever its subnet.
IPAddressFirstEntry(fixed_ips, subnet_id) ==
    IF fixed_ips = <<>> THEN "" ELSE fixed_ips[1].ip_address

\* Find the IP on the requested subnet: the first entry whose subnet matches.
IPAddress(fixed_ips, subnet_id) ==
    IF \E k \in 1..Len(fixed_ips) : fixed_ips[k].subnet_id = subnet_id
    THEN LET k == CHOOSE j \in 1..Len(fixed_ips) :
                      /\ fixed_ips[j].subnet_id = subnet_id
                      /\ \A h \in 1..(j - 1) : fixed_ips[h].subnet_id # subnet_id
         IN  fixed_ips[k].ip_address
    ELSE ""

AddResponse(port, subnet, subnet_id) ==
    [NoResp EXCEPT !.kind = "add",
                   !.port_id = port.id,
                   !.mac_address = port.mac_address,
                   !.ip_address = IPAddress(port.fixed_ips, subnet_id),
                   !.prefix_length = PrefixLength(subnet.cidr),
                   !.gateway_ip = subnet.gateway_ip]

DelResponse(ok) == [NoResp EXCEPT !.kind = "del", !.ok = ok]

CheckResponse(exists) == [NoResp EXCEPT !.kind = "check", !.exists = exists]

----------------------------------------------------------------------------
(* The daemon's handlers.  A handler runs from the request to its first    *)
(* control-plane call in one step (method check, decode, validation), and  *)
(* then one control-plane call per step, with whatever follows that call   *)
(* up to the next one; handlers of different connections interleave.       *)

\* A request as it reaches its handler. run is kept for the properties: the
\* run of the daemon process that serves it. pred is kept for the properties: the
\* /del exchanges that were complete when this /del request arrived.
Conn(route, method, body) ==
    [IdleConn EXCEPT !.route = route, !.method = method, !.body = body,
                     !.run = daemon.run,
                     !.pred = IF route # "/del" THEN {}
                              ELSE {s \in Slots : /\ conns[s].pc = "done"
                                                  /\ conns[s].route = "/del"}]

MethodNotAllowed == <<"method not allowed">>
InvalidRequestBody == <<"invalid request body: ", "decode error">>
AddFieldsRequired == <<"container_id, network_id, and subnet_id are required">>

\* mux.HandleFunc("/health", ...)
healthHandler(c) ==
    IF c.method # "GET"
    THEN writeError(c, 405, MethodNotAllowed)
    ELSE writeJSON(c, 200, [NoResp EXCEPT !.kind = "health"])

\* A plausible slip: the body is decoded before the method is looked at.
addEntryDecodesFirst(c) ==
    LET d == Decode(c.body)
    IN  IF d.err
        THEN writeError(c, 400, InvalidRequestBody)
        ELSE IF c.method # "POST"
        THEN writeError(c, 405, MethodNotAllowed)
        ELSE IF \/ d.req.container_id = <<>>
                \/ d.req.network_id = ""
                \/ d.req.subnet_id = ""
             THEN writeError(c, 400, AddFieldsRequired)
             ELSE [c EXCEPT !.req = d.req, !.pc = "create"]

\* /add up to ports.Create
addEntry(c) ==
    IF c.method # "POST"
    THEN writeError(c, 405, MethodNotAllowed)
    ELSE LET d == Decode(c.body)
         IN  IF d.err
             THEN writeError(c, 400, InvalidRequestBody)
             ELSE IF \/ d.req.container_id = <<>>
                     \/ d.req.network_id = ""
                     \/ d.req.subnet_id = ""
                  THEN writeError(c, 400, AddFieldsRequired)
                  ELSE [c EXCEPT !.req = d.req, !.pc = "create"]

\* /del and /check up to ports.List (the two are the same text)
listEntry(c) ==
    IF c.method # "POST"
    THEN writeError(c, 405, MethodNotAllowed)
    ELSE LET d == Decode(c.body)
         IN  IF d.err
             THEN writeError(c, 400, InvalidRequestBody)
             ELSE IF \/ d.req.container_id = <<>>
                     \/ d.req.network_id = ""
                  THEN writeError(c, 400,
                           <<"container_id and network_id are required">>)
                  ELSE [c EXCEPT !.req = [d.req EXCEPT !.subnet_id = ""],
                                 !.pc = "list"]

delEntry(c) == listEntry(c)

checkEntry(c) == listEntry(c)

\* The lowest free connection slot takes the next request.
Free(r) ==
    /\ conns[r].pc = "idle"
    /\ \A s \in Slots : s < r => conns[s].pc # "idle"

\* The requests a root peer may send to a route.
Requests(bodies) ==
    ({"POST"} \X bodies) \cup
    ({"GET"} \X {b \in bodies : \/ b.shape = "invalid"
                                \/ /\ b.shape = "object"
                                   /\ b.container_id = CidA
                                   /\ b.network_id = "net-1"})

ServeHealth(r) ==
    /\ Free(r)
    /\ \E method \in {"GET", "POST"} :
           conns' = [conns EXCEPT ![r] = healthHandler(Conn("/health", method, NoBody))]
    /\ UNCHANGED <<ports, nextID, cmds, nmIn, nmOut, daemon, rq, wire, bin>>

ServeAdd(r) ==
    /\ Free(r)
    /\ \E q \in Requests(BodiesOf({"", "sub-1"})) :
           conns' = [conns EXCEPT ![r] = addEntry(Conn("/add", q[1], q[2]))]
    /\ UNCHANGED <<ports, nextID, cmds, nmIn, nmOut, daemon, rq, wire, bin>>

ServeDel(r) ==
    /\ Free(r)
    /\ \E q \in Requests(BodiesNoSubnet) :
           conns' = [conns EXCEPT ![r] = delEntry(Conn("/del", q[1], q[2]))]
    /\ UNCHANGED <<ports, nextID, cmds, nmIn, nmOut, daemon, rq, wire, bin>>

ServeCheck(r) ==
    /\ Free(r)
    /\ \E q \in Requests(BodiesNoSubnet) :
           conns' = [conns EXCEPT ![r] = checkEntry(Conn("/check", q[1], q[2]))]
    /\ UNCHANGED <<ports, nextID, cmds, nmIn, nmOut, daemon, rq, wire, bin>>

Called(c, op, id, out) == [c EXCEPT !.calls = Append(@, Call(op, id, out))]

\* A plausible slip: a port that already carries the name on the network is
\* taken instead of a new one.
AddCreateReuses(r) ==
    LET c == conns[r]
        same == {p \in ports : /\ p.name = AddName(c.req)
                               /\ p.network_id = c.req.network_id}
    IN  /\ c.route = "/add"
        /\ c.pc = "create"
        /\ same # {}
        /\ \E old \in same : \E fips \in FixedIPChoices(c.req.subnet_id) :
              conns' = [conns EXCEPT ![r] =
                  [Called(c, "create", old.id, "ok") EXCEPT
                      !.port = [id |-> old.id,
                                mac_address |-> MacOf(old.id),
                                fixed_ips |-> fips],
                      !.pc = "get_subnet"]]
        /\ UNCHANGED <<ports, nextID, cmds, nmIn, nmOut, daemon, rq, wire, bin>>

\* port, err := ports.Create(neutronClient, createOpts).Extract()
AddCreate(r) ==
    LET c == conns[r]
    IN  /\ c.route = "/add"
        /\ c.pc = "create"
        /\ \/ /\ nextID <= MaxPortID
              /\ \E fips \in FixedIPChoices(c.req.subnet_id) :
                    conns' = [conns EXCEPT ![r] =
                        [Called(c, "create", nextID, "ok") EXCEPT
                            !.port = [id |-> nextID,
                                      mac_address |-> MacOf(nextID),
                                      fixed_ips |-> fips],
                            !.pc = "get_subnet"]]
              /\ ports' = ports \cup {[id |-> nextID, name |-> AddName(c.req),
                                        network_id |-> c.req.network_id,
                                        attached_for |-> c.req.container_id]}
              /\ nextID' = nextID + 1
           \/ /\ conns' = [conns EXCEPT ![r] =
                    writeError(Called(c, "create", 0, "err"), 500,
                               <<"failed to create port: ", Upstream>>)]
              /\ UNCHANGED <<ports, nextID>>
        /\ UNCHANGED <<cmds, nmIn, nmOut, daemon, rq, wire, bin>>

\* subnet, err := subnets.Get(neutronClient, req.SubnetID).Extract()
AddGetSubnet(r) ==
    LET c == conns[r]
    IN  /\ c.route = "/add"
        /\ c.pc = "get_subnet"
        /\ \/ \E subnet \in SubnetChoices :
                 conns' = [conns EXCEPT ![r] =
                     writeJSON(Called(c, "get_subnet", 0, "ok"), 200,
                               AddResponse(c.port, subnet, c.req.subnet_id))]
           \/ conns' = [conns EXCEPT ![r] =
                 [Called(c, "get_subnet", 0, "err") EXCEPT !.pc = "rollback"]]
        /\ UNCHANGED <<ports, nextID, cmds, nmIn, nmOut, daemon, rq, wire, bin>>

\* A plausible slip: the cleanup deletes the oldest port there is.
AddRollbackOldest(r) ==
    LET c == conns[r]
        oldest == CHOOSE id \in PortIDs \cup {c.port.id} :
                      \A other \in PortIDs \cup {c.port.id} : id <= other
    IN  /\ c.route = "/add"
        /\ c.pc = "rollback"
        /\ \E out \in DeleteOutcomes(oldest) :
              /\ ports' = PortsAfterDelete(oldest, out)
              /\ conns' = [conns EXCEPT ![r] =
                    writeError(Called(c, "delete", oldest, out), 500,
                               <<"failed to get subnet: ", Upstream>>)]
        /\ UNCHANGED <<nextID, cmds, nmIn, nmOut, daemon, rq, wire, bin>>

\* ports.Delete(neutronClient, port.ID); writeError(... "failed to get subnet")
AddRollback(r) ==
    LET c == conns[r]
    IN  /\ c.route = "/add"
        /\ c.pc = "rollback"
        /\ \E out \in DeleteOutcomes(c.port.id) :
              /\ ports' = PortsAfterDelete(c.port.id, out)
              /\ conns' = [conns EXCEPT ![r] =
                    writeError(Called(c, "delete", c.port.id, out), 500,
                               <<"failed to get subnet: ", Upstream>>)]
        /\ UNCHANGED <<nextID, cmds, nmIn, nmOut, daemon, rq, wire, bin>>

\* A plausible slip: with nothing to delete the answer is ok:false.
delListedOkFalse(c, l) ==
    IF l = <<>>
    THEN writeJSON([c EXCEPT !.listed = l], 200, DelResponse(FALSE))
    ELSE [c EXCEPT !.listed = l, !.i = 1, !.pc = "delete"]

\* A plausible slip: an empty list is reported as a failure.
delListedNotFound(c, l) ==
    IF l = <<>>
    THEN writeError([c EXCEPT !.listed = l], 404, <<"port not found">>)
    ELSE [c EXCEPT !.listed = l, !.i = 1, !.pc = "delete"]

\* for _, p := range allPorts: with no port listed the loop body never runs
\* and the handler answers ok.
delListed(c, l) ==
    IF l = <<>>
    THEN writeJSON([c EXCEPT !.listed = l], 200, DelResponse(TRUE))
    ELSE [c EXCEPT !.listed = l, !.i = 1, !.pc = "delete"]

\* allPages, err := ports.List(...).AllPages(); ports.ExtractPorts(allPages)
DelList(r) ==
    LET c == conns[r]
    IN  /\ c.route = "/del"
        /\ c.pc = "list"
        /\ \/ conns' = [conns EXCEPT ![r] =
                 delListed(Called(c, "list", 0, "ok"),
                           ListPorts(DelName(c.req), c.req.network_id))]
           \/ conns' = [conns EXCEPT ![r] =
                 writeError(Called(c, "list", 0, "err"), 500,
                            <<"failed to list ports: ", Upstream>>)]
           \/ conns' = [conns EXCEPT ![r] =
                 writeError(Called(c, "list", 0, "extract_err"), 500,
                            <<"failed to extract ports: ", Upstream>>)]
        /\ UNCHANGED <<ports, nextID, cmds, nmIn, nmOut, daemon, rq, wire, bin>>

\* A plausible slip: the loop stops after the first port.
deleteTurnFirstOnly(c, out) ==
    LET d == Called(c, "delete", c.listed[c.i].id, out)
    IN  IF out \notin {"ok", "404"}
        THEN writeError(d, 500, <<"failed to delete port: ", Upstream>>)
        ELSE writeJSON(d, 200, DelResponse(TRUE))

\* A plausible slip: a port that is already gone fails the request.
deleteTurnStrict(c, out) ==
    LET d == Called(c, "delete", c.listed[c.i].id, out)
    IN  IF out # "ok"
        THEN writeError(d, 500, <<"failed to delete port: ", Upstream>>)
        ELSE IF c.i = Len(c.listed)
             THEN writeJSON(d, 200, DelResponse(TRUE))
             ELSE [d EXCEPT !.i = c.i + 1]

\* A plausible slip: a failed delete is logged and the loop goes on.
deleteTurnLenient(c, out) ==
    LET d == Called(c, "delete", c.listed[c.i].id, out)
    IN  IF c.i = Len(c.listed)
        THEN writeJSON(d, 200, DelResponse(TRUE))
        ELSE [d EXCEPT !.i = c.i + 1]

\* One turn of the loop over allPorts: the delete of allPorts[i] and what the
\* handler does with its answer.
deleteTurn(c, out) ==
    LET d == Called(c, "delete", c.listed[c.i].id, out)
    IN  IF out \notin {"ok", "404"}
        THEN writeError(d, 500, <<"failed to delete port: ", Upstream>>)
        ELSE IF c.i = Len(c.listed)
             THEN writeJSON(d, 200, DelResponse(TRUE))
             ELSE [d EXCEPT !.i = c.i + 1]

DelDelete(r) ==
    LET c == conns[r]
    IN  /\ c.route = "/del"
        /\ c.pc = "delete"
        /\ \E out \in DeleteOutcomes(c.listed[c.i].id) :
              /\ ports' = PortsAfterDelete(c.listed[c.i].id, out)
              /\ conns' = [conns EXCEPT ![r] = deleteTurn(c, out)]
        /\ UNCHANGED <<nextID, cmds, nmIn, nmOut, daemon, rq, wire, bin>>

\* A plausible slip: one listed port is not enough.
ExistsSeveral(allPorts) == Len(allPorts) > 1

\* exists := len(allPorts) > 0
Exists(allPorts) == Len(allPorts) > 0

\* A plausible slip: what an earlier /check found is kept in the process and
\* answered again without asking the control plane.
CheckListCached(r) ==
    LET c == conns[r]
        found == {s \in Slots : /\ s # r
                                /\ conns[s].pc = "done"
                                /\ conns[s].route = "/check"
                                /\ conns[s].status = 200
                                /\ conns[s].req = c.req
                                /\ conns[s].run = c.run}
    IN  /\ c.route = "/check"
        /\ c.pc = "list"
        /\ IF found # {}
           THEN \E s \in found :
                   conns' = [conns EXCEPT ![r] = writeJSON(c, 200, conns[s].resp)]
           ELSE LET l == ListPorts(CheckName(c.req), c.req.network_id)
                IN  conns' = [conns EXCEPT ![r] =
                       writeJSON([Called(c, "list", 0, "ok") EXCEPT !.listed = l],
                                 200, CheckResponse(Exists(l)))]
        /\ UNCHANGED <<ports, nextID, cmds, nmIn, nmOut, daemon, rq, wire, bin>>

CheckList(r) ==
    LET c == conns[r]
    IN  /\ c.route = "/check"
        /\ c.pc = "list"
        /\ \/ LET l == ListPorts(CheckName(c.req), c.req.network_id)
              IN conns' = [conns EXCEPT ![r] =
                     writeJSON([Called(c, "list", 0, "ok") EXCEPT !.listed = l],
                               200, CheckResponse(Exists(l)))]
           \/ conns' = [conns EXCEPT ![r] =
                 writeError(Called(c, "list", 0, "err"), 500,
                            <<"failed to list ports: ", Upstream>>)]
           \/ conns' = [conns EXCEPT ![r] =
                 writeError(Called(c, "list", 0, "extract_err"), 500,
                            <<"failed to extract ports: ", Upstream>>)]
        /\ UNCHANGED <<ports, nextID, cmds, nmIn, nmOut, daemon, rq, wire, bin>>

\* The response has been written and the handler has returned: the exchange
\* is over and the connection's slot is free again.
Close(r) ==
    /\ conns[r].pc = "done"
    /\ conns' = [s \in Slots |->
                    IF s = r THEN IdleConn
                    ELSE [conns[s] EXCEPT !.pred = @ \ {r}]]
    /\ UNCHANGED <<ports, nextID, cmds, nmIn, nmOut, daemon, rq, wire, bin>>

----------------------------------------------------------------------------
(* The thin CNI plugin: one process per command.  A process runs up to its  *)
(* next external call (a daemon request, the delegate) in one step.         *)

\* NetConf.Args as the configuration gives it: absent; there with no cni
\* entry; there with a cni entry that holds a port identity and MAC already.
NilArgs == [set |-> FALSE, cni |-> [set |-> FALSE, ovn_port |-> 0, mac |-> <<>>]]

ArgsShapes ==
    {NilArgs,
     [NilArgs EXCEPT !.set = TRUE],
     [set |-> TRUE, cni |-> [set |-> TRUE, ovn_port |-> 0, mac |-> <<"00:00:00", 0>>]]}

\* The other fields of a configuration document, as <<key, value>>: those of
\* the delegate's configuration.
DelegateFields ==
    {<<"name", "ovs-net">>, <<"bridge", "br-int">>, <<"isGateway", "true">>}

\* doc: the fields of the document other than network_id, subnet_id,
\* delegate_plugin, socket_path and args.
NoConf == [parses |-> FALSE, network_id |-> "", subnet_id |-> "",
           socket_path |-> "", args |-> NilArgs, doc |-> {}]

GoodConf == [NoConf EXCEPT !.parses = TRUE, !.network_id = "net-1",
                           !.subnet_id = "sub-1",
                           !.doc = {<<"name", "ovs-net">>}]

\* json.Unmarshal(args.StdinData, conf) followed by json.Marshal(conf.NetConf):
\* the fields the struct declares are kept, a key it does not declare is
\* dropped by Unmarshal. Of the fields ovs_types.NetConf declares the documents
\* here use name and bridge.
NetConfOf(doc) == {kv \in doc : kv[1] \in {"name", "bridge"}}

\* The configuration documents handed to the plugin on standard input.
Confs ==
    {NoConf, GoodConf, [GoodConf EXCEPT !.subnet_id = ""],
     [GoodConf EXCEPT !.socket_path = "/run/other.sock"]}
    \cup {[GoodConf EXCEPT !.args = a] : a \in ArgsShapes}
    \cup {[GoodConf EXCEPT !.doc = DelegateFields]}

\* api.SocketPath
SocketPath == "/var/run/openstack-cni/cni.sock"

socketPathDefaultOnly(conf) == SocketPath

\* func (c *PluginConf) socketPath() string
socketPath(conf) ==
    IF conf.socket_path # "" THEN conf.socket_path ELSE SocketPath

NoDoc == [args |-> NilArgs,
          ipam |-> [type |-> "", addresses |-> <<>>], rest |-> {}]

\* CidA and the second of these are two containers whose IDs agree on their
\* first 12 characters.
CniContainerIDs == {CidA, [CidA EXCEPT ![NameLen + 1] = "8"], CidC}

NoPrev == [did |-> "", container_id |-> <<>>, conf |-> NoConf, port |-> 0,
           n |-> 0]

\* A command's locals (stdin: the document for the delegate; out: what the
\* command printed as its result), and for the properties: steps, the
\* external calls it made in their order; reqs, the daemon requests among
\* them; via, how its daemon request went; derr, the error that request
\* returned; reserved and comp, the port the daemon created for it and how
\* the compensating request went; dres, the result the delegate gave.
IdleCmd == [pc |-> "idle", cmd |-> "", container_id |-> <<>>, conf |-> NoConf,
            conn |-> 0, resp |-> NoResp, err |-> <<>>, reserved |-> 0,
            comp |-> "none", steps |-> <<>>, via |-> "none", derr |-> <<>>,
            reqs |-> <<>>, stdin |-> NoDoc, dres |-> "", out |-> "",
            prev |-> NoPrev]

\* prev: what the invocations just before this one did for the same container
\* ID and configuration. did = "add": n cmdAdd invocations in a row succeeded
\* (each returned with its result printed, which leaves its port, the last
\* one's being port, to the container); did = "add-del": those were followed
\* by a cmdDel whose /del request the daemon answered 200.
Prev(m) ==
    IF m.cmd = "ADD" /\ m.pc = "returned" /\ m.err = <<>>
    THEN [did |-> "add", container_id |-> m.container_id, conf |-> m.conf,
          port |-> m.reserved, n |-> m.prev.n + 1]
    ELSE IF /\ m.cmd = "DEL" /\ m.pc = "returned" /\ m.prev.did = "add"
            /\ m.via = "received" /\ m.derr = <<>>
    THEN [m.prev EXCEPT !.did = "add-del"]
    ELSE NoPrev

\* What an invocation of cmd for (id, conf) sees of the invocations before it.
Carried(prev, cmd, id, conf) ==
    IF /\ prev.container_id = id
       /\ prev.conf = conf
       /\ \/ cmd \in {"ADD", "DEL"} /\ prev.did = "add"
          \/ cmd = "CHECK" /\ prev.did = "add-del"
    THEN prev
    ELSE NoPrev

FreeProc(p) ==
    /\ cmds[p].pc = "idle"
    /\ \A q \in Procs : q < p => cmds[q].pc # "idle"

\* The command returns err (<<>>: nil).
Return(m, err) ==
    [m EXCEPT !.pc = "returned", !.err = err, !.conn = 0, !.resp = NoResp,
              !.stdin = NoDoc]

Did(m, step) == [m EXCEPT !.steps = Append(@, step)]

\* A plausible slip: the cleanup request names the container only.
DelRequestOfNoNetwork(m) ==
    [container_id |-> m.container_id, network_id |-> ""]

\* api.DelRequest{ContainerID: args.ContainerID, NetworkID: conf.NetworkID}
\* (api.CheckRequest has the same fields)
DelRequestOf(m) ==
    [container_id |-> m.container_id, network_id |-> m.conf.network_id]

\* daemonRequest(socketPath, POST, path, body, ...) is called.
Asked(m, step, path, body) ==
    [Did(m, step) EXCEPT !.reqs = Append(@,
        [path |-> path, socket |-> socketPath(m.conf),
         container_id |-> body.container_id, network_id |-> body.network_id])]

\* A plausible slip: a transport failure is reported as a daemon error.
DaemonRequestFailedAsDaemonError == <<"daemon error: ", "transport error">>

DaemonRequestFailed == <<"daemon request failed: ", "transport error">>

\* What can become of a response on its way to the client: it arrives, the
\* connection breaks before the response head is read, the body cannot be
\* read, or the body does not decode.
Fates == {"received", "lost", "unreadable", "undecodable"}

\* The bytes of a response body, as the text the client reports.
RawBody(resp) ==
    IF resp.kind = "error" THEN <<"{error:">> \o resp.error \o <<"}">>
    ELSE IF resp.kind = "none" THEN <<>>
    ELSE <<resp.kind>>

\* json.Unmarshal(body, &errResp) == nil && errResp.Error != "": any JSON
\* object decodes into the envelope, Error staying empty when the key is not
\* there.
ErrorOf(resp) ==
    IF resp.kind = "error" THEN resp.error ELSE <<>>

IsJSONObject(resp) == resp.kind \notin {"none", "garbage"}

\* A plausible slip: every response is decoded as a success body.
daemonRequestNoStatus(c, fate, decodes) ==
    IF fate = "lost" THEN DaemonRequestFailed
    ELSE IF fate = "unreadable"
    THEN <<"failed to read response: ", "read error">>
    ELSE IF decodes /\ (fate = "undecodable" \/ ~IsJSONObject(c.resp))
    THEN <<"failed to decode response: ", "decode error">>
    ELSE <<>>

\* daemonRequest from the answer on: the error it returns (<<>>: nil) for the
\* exchange c; decodes tells whether a response body was asked for.
daemonRequest(c, fate, decodes) ==
    IF fate = "lost" THEN DaemonRequestFailed
    ELSE IF fate = "unreadable"
    THEN <<"failed to read response: ", "read error">>
    ELSE IF c.status < 200 \/ c.status >= 300
    THEN IF IsJSONObject(c.resp) /\ ErrorOf(c.resp) # <<>>
         THEN <<"daemon error: ">> \o ErrorOf(c.resp)
         ELSE <<"daemon returned status ", ToString(c.status), ": ">>
              \o RawBody(c.resp)
    ELSE IF decodes /\ (fate = "undecodable" \/ ~IsJSONObject(c.resp))
    THEN <<"failed to decode response: ", "decode error">>
    ELSE <<>>

\* A plausible slip: a cni entry that is there already is left as it is.
withArgsKeepsExisting(args, resp) ==
    IF args.set /\ args.cni.set THEN args
    ELSE [set |-> TRUE,
          cni |-> [set |-> TRUE, ovn_port |-> resp.port_id,
                   mac |-> resp.mac_address]]

\* conf.Args after the port identity and the MAC are put in: Args and its
\* CNI entry are made when they are not there, then both fields are set.
withArgs(args, resp) ==
    LET made == IF ~args.set THEN [NilArgs EXCEPT !.set = TRUE, !.cni.set = TRUE]
                ELSE IF ~args.cni.set THEN [args EXCEPT !.cni.set = TRUE]
                ELSE args
    IN  [made EXCEPT !.cni.ovn_port = resp.port_id,
                     !.cni.mac = resp.mac_address]

\* The document handed to the delegate: the NetConf with the new Args, as a
\* map, with the ipam block put in; the address is
\* fmt.Sprintf("%s/%s", resp.IPAddress, resp.PrefixLength).
delegateConfig(conf, resp) ==
    [args |-> withArgs(conf.args, resp),
     ipam |-> [type |-> "static",
               addresses |-> <<[address |-> <<resp.ip_address, "/">>
                                             \o resp.prefix_length,
                                gateway |-> resp.gateway_ip]>>],
     rest |-> NetConfOf(conf.doc)]

\* The document cmdDel and cmdCheck hand to the delegate: conf.NetConf,
\* marshalled.
netConf(conf) == [NoDoc EXCEPT !.args = conf.args, !.rest = NetConfOf(conf.doc)]

\* The results a delegate can give.
DelegateResults == {"result-a", "result-b"}

\* Where the assembly of the delegate's input can fail.
Assemblies == {"ok", "marshal NetConf", "unmarshal NetConf to map",
               "marshal final config"}

CloseConn(r) == [conns EXCEPT ![r] = IdleConn]

\* cmdAdd up to the /add request: the configuration is parsed and the request
\* is sent, unless the daemon cannot be reached.
CmdAddStart(p) ==
    /\ FreeProc(p)
    /\ \E id \in CniContainerIDs : \E conf \in Confs :
          LET m == [IdleCmd EXCEPT !.cmd = "ADD", !.container_id = id,
                                   !.prev = Carried(cmds[p].prev, "ADD", id, conf),
                                   !.conf = conf]
              q == Asked(m, "request /add", "/add",
                         [container_id |-> id, network_id |-> conf.network_id])
          IN  \/ /\ ~conf.parses
                 /\ cmds' = [cmds EXCEPT ![p] =
                       Return(m, <<"failed to parse network config: ", "parse error">>)]
                 /\ UNCHANGED conns
              \/ /\ conf.parses
                 /\ cmds' = [cmds EXCEPT ![p] =
                       Return([q EXCEPT !.via = "unreachable",
                                        !.derr = DaemonRequestFailed],
                              DaemonRequestFailed)]
                 /\ UNCHANGED conns
              \/ /\ conf.parses
                 /\ \E r \in Slots :
                       /\ Free(r)
                       /\ conns' = [conns EXCEPT ![r] =
                             addEntry(Conn("/add", "POST",
                                 Body("object", <<id, conf.network_id, conf.subnet_id>>)))]
                       /\ cmds' = [cmds EXCEPT ![p] =
                             [q EXCEPT !.pc = "add", !.conn = r, !.via = "sent"]]
    /\ UNCHANGED <<ports, nextID, nmIn, nmOut, daemon, rq, wire, bin>>

\* cmdAdd from the answer to /add up to the delegate: a failed request is
\* returned as it is; otherwise the delegate's input is assembled and the
\* delegate is invoked.
CmdAddResponse(p) ==
    LET m == cmds[p]
        c == conns[m.conn]
    IN  /\ m.cmd = "ADD"
        /\ m.pc = "add"
        /\ c.pc = "done"
        /\ \E fate \in Fates : \E assembly \in Assemblies :
              LET err == daemonRequest(c, fate, TRUE)
                  got == [m EXCEPT !.reserved = c.port.id, !.via = fate,
                                   !.derr = err]
              IN  cmds' = [cmds EXCEPT ![p] =
                      IF err # <<>>
                      THEN Return(got, err)
                      ELSE IF assembly # "ok"
                      THEN [got EXCEPT !.resp = c.resp, !.pc = "compensate",
                                       !.conn = 0,
                                       !.err = <<"failed to ", assembly>>]
                      ELSE [Did(got, "delegate ADD") EXCEPT
                                       !.resp = c.resp, !.pc = "delegate",
                                       !.conn = 0,
                                       !.stdin = delegateConfig(m.conf, c.resp)]]
        /\ conns' = CloseConn(m.conn)
        /\ UNCHANGED <<ports, nextID, nmIn, nmOut, daemon, rq, wire, bin>>

\* A plausible slip: the command prints a result of its own making.
delegateAddedOwnResult(m, outcome, res) ==
    IF outcome = "delegate failed"
    THEN [Did(m, outcome) EXCEPT
              !.pc = "compensate",
              !.err = <<"failed to delegate: ", "delegate error">>]
    ELSE IF outcome = "print failed"
    THEN Return([Did(m, "delegate returned") EXCEPT !.dres = res],
                <<"failed to print result">>)
    ELSE Return([Did(m, "delegate returned") EXCEPT !.dres = res,
                                                    !.out = "result-a"], <<>>)

\* result, err := invoke.DelegateAdd(...): a failure goes to the
\* compensation; otherwise return result.Print(), which prints the
\* delegate's result or fails.
delegateAdded(m, outcome, res) ==
    IF outcome = "delegate failed"
    THEN [Did(m, outcome) EXCEPT
              !.pc = "compensate",
              !.err = <<"failed to delegate: ", "delegate error">>]
    ELSE IF outcome = "print failed"
    THEN Return([Did(m, "delegate returned") EXCEPT !.dres = res],
                <<"failed to print result">>)
    ELSE Return([Did(m, "delegate returned") EXCEPT !.dres = res,
                                                    !.out = res], <<>>)

CmdAddDelegate(p) ==
    LET m == cmds[p]
    IN  /\ m.cmd = "ADD"
        /\ m.pc = "delegate"
        /\ \/ \E res \in DelegateResults :
              \E outcome \in {"delegate returned", "print failed"} :
                 cmds' = [cmds EXCEPT ![p] = delegateAdded(m, outcome, res)]
           \/ cmds' = [cmds EXCEPT ![p] = delegateAdded(m, "delegate failed", "")]
        /\ UNCHANGED <<ports, nextID, conns, nmIn, nmOut, daemon, rq, wire, bin>>

\* A plausible slip: a cleanup that failed is what the command reports.
compensatedReportsCleanup(m, err) ==
    Return(m, IF err # <<>> THEN err ELSE m.err)

\* _ = daemonRequest(... "/del" ...); return <the failure that made cmdAdd
\* compensate>: err, the cleanup's own error, is dropped.
compensated(m, err) == Return(m, m.err)

\* The compensating daemonRequest(socketPath, POST, "/del", ...), up to its
\* answer.
CmdAddCompensate(p) ==
    LET m == cmds[p]
        q == Asked(m, "request /del", "/del", DelRequestOf(m))
    IN  /\ m.cmd = "ADD"
        /\ m.pc = "compensate"
        /\ \/ /\ cmds' = [cmds EXCEPT ![p] =
                    compensated([q EXCEPT !.comp = "unreachable"],
                                DaemonRequestFailed)]
              /\ UNCHANGED conns
           \/ \E r \in Slots :
                 /\ Free(r)
                 /\ conns' = [conns EXCEPT ![r] =
                       delEntry(Conn("/del", "POST",
                           Body("object", <<DelRequestOf(m).container_id,
                                             DelRequestOf(m).network_id, "">>)))]
                 /\ cmds' = [cmds EXCEPT ![p] =
                       [q EXCEPT !.pc = "compensating", !.conn = r]]
        /\ UNCHANGED <<ports, nextID, nmIn, nmOut, daemon, rq, wire, bin>>

\* The compensating request's answer is dropped; cmdAdd returns the failure
\* that made it compensate.
CmdAddCompensated(p) ==
    LET m == cmds[p]
        c == conns[m.conn]
    IN  /\ m.cmd = "ADD"
        /\ m.pc = "compensating"
        /\ c.pc = "done"
        /\ \E fate \in Fates \ {"undecodable"} :
              LET err == daemonRequest(c, fate, FALSE)
              IN  cmds' = [cmds EXCEPT ![p] =
                      compensated([m EXCEPT !.comp =
                                      IF err = <<>> THEN "ok"
                                      ELSE IF fate = "received" THEN "error"
                                      ELSE fate],
                                  err)]
        /\ conns' = CloseConn(m.conn)
        /\ UNCHANGED <<ports, nextID, nmIn, nmOut, daemon, rq, wire, bin>>

\* cmdDel up to the delegate: a configuration that does not parse, or a
\* NetConf that does not marshal, ends the command with success.
CmdDelStart(p) ==
    /\ FreeProc(p)
    /\ \E id \in CniContainerIDs : \E conf \in Confs :
       \E marshal \in {"ok", "marshal NetConf"} :
          LET m == [IdleCmd EXCEPT !.cmd = "DEL", !.container_id = id,
                                   !.prev = Carried(cmds[p].prev, "DEL", id, conf),
                                   !.conf = conf]
          IN  cmds' = [cmds EXCEPT ![p] =
                  IF ~conf.parses THEN Return(m, <<>>)
                  ELSE IF marshal # "ok" THEN Return(m, <<>>)
                  ELSE [Did(m, "delegate DEL") EXCEPT !.pc = "delegate",
                                                      !.stdin = netConf(conf)]]
    /\ UNCHANGED <<ports, nextID, conns, nmIn, nmOut, daemon, rq, wire, bin>>

\* A plausible slip: a failed delegate ends the command before the daemon is
\* asked to release the port.
CmdDelDelegateStopsOnFailure(p) ==
    LET m == cmds[p]
    IN  /\ m.cmd = "DEL"
        /\ m.pc = "delegate"
        /\ \E outcome \in {"delegate returned", "delegate failed"} :
              LET d == Did(m, outcome)
                  q == Asked(d, "request /del", "/del", DelRequestOf(m))
              IN  \/ /\ outcome = "delegate failed"
                     /\ cmds' = [cmds EXCEPT ![p] = Return(d, <<>>)]
                     /\ UNCHANGED conns
                  \/ /\ outcome # "delegate failed"
                     /\ cmds' = [cmds EXCEPT ![p] =
                           Return([q EXCEPT !.via = "unreachable",
                                            !.derr = DaemonRequestFailed], <<>>)]
                     /\ UNCHANGED conns
                  \/ /\ outcome # "delegate failed"
                     /\ \E r \in Slots :
                        /\ Free(r)
                        /\ conns' = [conns EXCEPT ![r] =
                              delEntry(Conn("/del", "POST",
                                  Body("object", <<DelRequestOf(m).container_id,
                                             DelRequestOf(m).network_id, "">>)))]
                        /\ cmds' = [cmds EXCEPT ![p] =
                              [q EXCEPT !.pc = "del", !.conn = r, !.via = "sent",
                                        !.stdin = NoDoc]]
        /\ UNCHANGED <<ports, nextID, nmIn, nmOut, daemon, rq, wire, bin>>

\* invoke.DelegateDel has returned, with or without an error (a warning is
\* written for an error); then daemonRequest(socketPath, POST, "/del", ...),
\* up to its answer.
CmdDelDelegate(p) ==
    LET m == cmds[p]
    IN  /\ m.cmd = "DEL"
        /\ m.pc = "delegate"
        /\ \E outcome \in {"delegate returned", "delegate failed"} :
              LET q == Asked(Did(m, outcome), "request /del", "/del",
                             DelRequestOf(m))
              IN  \/ /\ cmds' = [cmds EXCEPT ![p] =
                           Return([q EXCEPT !.via = "unreachable",
                                            !.derr = DaemonRequestFailed], <<>>)]
                     /\ UNCHANGED conns
                  \/ \E r \in Slots :
                        /\ Free(r)
                        /\ conns' = [conns EXCEPT ![r] =
                              delEntry(Conn("/del", "POST",
                                  Body("object", <<DelRequestOf(m).container_id,
                                             DelRequestOf(m).network_id, "">>)))]
                        /\ cmds' = [cmds EXCEPT ![p] =
                              [q EXCEPT !.pc = "del", !.conn = r, !.via = "sent",
                                        !.stdin = NoDoc]]
        /\ UNCHANGED <<ports, nextID, nmIn, nmOut, daemon, rq, wire, bin>>

\* A plausible slip: the daemon's error is returned to the runtime.
CmdDelResponsePropagates(p) ==
    LET m == cmds[p]
        c == conns[m.conn]
    IN  /\ m.cmd = "DEL"
        /\ m.pc = "del"
        /\ c.pc = "done"
        /\ \E fate \in Fates \ {"undecodable"} :
              LET err == daemonRequest(c, fate, FALSE)
              IN  cmds' = [cmds EXCEPT ![p] =
                      Return([m EXCEPT !.via = fate, !.derr = err], err)]
        /\ conns' = CloseConn(m.conn)
        /\ UNCHANGED <<ports, nextID, nmIn, nmOut, daemon, rq, wire, bin>>

\* The answer to /del: whatever daemonRequest returns is dropped, and cmdDel
\* returns nil.
CmdDelResponse(p) ==
    LET m == cmds[p]
        c == conns[m.conn]
    IN  /\ m.cmd = "DEL"
        /\ m.pc = "del"
        /\ c.pc = "done"
        /\ \E fate \in Fates \ {"undecodable"} :
              LET err == daemonRequest(c, fate, FALSE)
              IN  cmds' = [cmds EXCEPT ![p] =
                      Return([m EXCEPT !.via = fate, !.derr = err], <<>>)]
        /\ conns' = CloseConn(m.conn)
        /\ UNCHANGED <<ports, nextID, nmIn, nmOut, daemon, rq, wire, bin>>

\* cmdCheck up to the /check request.
CmdCheckStart(p) ==
    /\ FreeProc(p)
    /\ \E id \in CniContainerIDs : \E conf \in Confs :
          LET m == [IdleCmd EXCEPT !.cmd = "CHECK", !.container_id = id,
                                   !.prev = Carried(cmds[p].prev, "CHECK", id, conf),
                                   !.conf = conf]
              q == Asked(m, "request /check", "/check", DelRequestOf(m))
          IN  \/ /\ ~conf.parses
                 /\ cmds' = [cmds EXCEPT ![p] =
                       Return(m, <<"failed to parse network config: ", "parse error">>)]
                 /\ UNCHANGED conns
              \/ /\ conf.parses
                 /\ cmds' = [cmds EXCEPT ![p] =
                       Return([q EXCEPT !.via = "unreachable",
                                        !.derr = DaemonRequestFailed],
                              DaemonRequestFailed)]
                 /\ UNCHANGED conns
              \/ /\ conf.parses
                 /\ \E r \in Slots :
                       /\ Free(r)
                       /\ conns' = [conns EXCEPT ![r] =
                             checkEntry(Conn("/check", "POST",
                                 Body("object", <<DelRequestOf(m).container_id,
                                                  DelRequestOf(m).network_id, "">>)))]
                       /\ cmds' = [cmds EXCEPT ![p] =
                             [q EXCEPT !.pc = "check", !.conn = r, !.via = "sent"]]
    /\ UNCHANGED <<ports, nextID, nmIn, nmOut, daemon, rq, wire, bin>>

\* What cmdCheck does with the answer to /check: m is the command with the
\* request's outcome noted, c the exchange.
\* A plausible slip: a port that does not exist is passed over.
checkAnsweredAbsentOk(m, c, err, assembly) ==
    IF err # <<>> THEN Return(m, err)
    ELSE IF ~c.resp.exists THEN Return(Did(m, "exists:false"), <<>>)
    ELSE IF assembly # "ok"
    THEN Return(Did(m, "exists:true"), <<"failed to ", assembly>>)
    ELSE [Did(Did(m, "exists:true"), "delegate CHECK") EXCEPT
              !.pc = "delegate", !.conn = 0, !.stdin = netConf(m.conf)]

\* A plausible slip: the delegate is asked whatever the daemon answered.
checkAnsweredDelegatesAnyway(m, c, err, assembly) ==
    IF err # <<>> THEN Return(m, err)
    ELSE IF assembly # "ok"
    THEN Return(Did(m, IF c.resp.exists THEN "exists:true" ELSE "exists:false"),
                <<"failed to ", assembly>>)
    ELSE [Did(Did(m, IF c.resp.exists THEN "exists:true" ELSE "exists:false"),
              "delegate CHECK") EXCEPT !.pc = "delegate", !.conn = 0,
                                       !.stdin = netConf(m.conf)]

checkAnswered(m, c, err, assembly) ==
    IF err # <<>> THEN Return(m, err)
    ELSE IF ~c.resp.exists THEN Return(Did(m, "exists:false"),
                                   <<"neutron port ", "not found">>)
    ELSE IF assembly # "ok"
    THEN Return(Did(m, "exists:true"), <<"failed to ", assembly>>)
    ELSE [Did(Did(m, "exists:true"), "delegate CHECK") EXCEPT
              !.pc = "delegate", !.conn = 0, !.stdin = netConf(m.conf)]

\* cmdCheck from the answer to /check up to the delegate.
CmdCheckResponse(p) ==
    LET m == cmds[p]
        c == conns[m.conn]
    IN  /\ m.cmd = "CHECK"
        /\ m.pc = "check"
        /\ c.pc = "done"
        /\ \E fate \in Fates :
           \E assembly \in {"ok", "marshal NetConf", "unmarshal NetConf to map",
                            "marshal config"} :
              LET err == daemonRequest(c, fate, TRUE)
              IN  cmds' = [cmds EXCEPT ![p] =
                      checkAnswered([m EXCEPT !.via = fate, !.derr = err],
                                    c, err, assembly)]
        /\ conns' = CloseConn(m.conn)
        /\ UNCHANGED <<ports, nextID, nmIn, nmOut, daemon, rq, wire, bin>>

DelegateError == <<"delegate error">>

\* return invoke.DelegateCheck(...): the delegate's error, or nil, is
\* cmdCheck's.
delegateChecked(m, outcome) ==
    Return(Did(m, outcome),
           IF outcome = "delegate failed" THEN DelegateError ELSE <<>>)

CmdCheckDelegate(p) ==
    LET m == cmds[p]
    IN  /\ m.cmd = "CHECK"
        /\ m.pc = "delegate"
        /\ \E outcome \in {"delegate returned", "delegate failed"} :
              cmds' = [cmds EXCEPT ![p] = delegateChecked(m, outcome)]
        /\ UNCHANGED <<ports, nextID, conns, nmIn, nmOut, daemon, rq, wire, bin>>

\* The process has returned its result to the runtime and is gone.
Exit(p) ==
    /\ cmds[p].pc = "returned"
    /\ cmds' = [cmds EXCEPT ![p] = [IdleCmd EXCEPT !.prev = Prev(cmds[p])]]
    /\ UNCHANGED <<ports, nextID, conns, nmIn, nmOut, daemon, rq, wire, bin>>

----------------------------------------------------------------------------
(* The single-binary plugin (src/main.go): one process per command, which   *)
(* calls the control plane itself.  A process runs up to its next external  *)
(* call (the control plane, the delegate) in one step.                      *)

\* A command's locals (name: the port name it derived; stdin: the document
\* for the delegate; delegate: how cmdDel's delegate went; out: what it
\* printed as its result), and for the properties: calls, the control-plane calls it made in their order; named,
\* whether it has come to the name derivation.
IdleBin == [pc |-> "idle", cmd |-> "", container_id |-> <<>>, conf |-> NoConf,
            named |-> FALSE, name |-> [panics |-> FALSE, name |-> <<>>],
            subnet |-> [cidr |-> <<>>, gateway_ip |-> ""],
            port |-> NoPort, listed |-> <<>>, i |-> 0, calls |-> <<>>,
            err |-> <<>>, stdin |-> NoDoc, delegate |-> "", out |-> ""]

\* The container IDs the runtime hands to the single-binary plugin: longer
\* than 12 characters, exactly 12, shorter, and empty.
BinContainerIDs == {CidA, SubSeq(CidA, 1, NameLen), CidC, <<>>}

\* The configuration documents handed to the single-binary plugin.
BinConfs ==
    {NoConf, GoodConf, [GoodConf EXCEPT !.doc = DelegateFields]}
    \cup {[GoodConf EXCEPT !.args = a] : a \in ArgsShapes}

\* authenticate(): the environment is loaded, a token is asked for and the
\* network client is made; any of these can fail.
AuthOutcomes == {"ok", "could not get openstack auth from env",
                 "could not authenticate to openstack", "no network endpoint"}

\* The command returns err (<<>>: nil).
BinReturn(m, err) == [m EXCEPT !.pc = "returned", !.err = err]

BinCalled(m, op, id, out) == [m EXCEPT !.calls = Append(@, Call(op, id, out))]

\* portName := fmt.Sprintf("k8s-pod-%s", args.ContainerID[:12]): the process
\* crashes on a container ID shorter than 12, and goes on to next otherwise.
BinNamed(m, next) ==
    LET n == pluginPortName(m.container_id)
    IN  [m EXCEPT !.named = TRUE, !.name = n,
                  !.pc = IF n.panics THEN "panicked" ELSE next]

\* strings.Split(subneDetails.CIDR, "/"): the prefix length is the second of
\* exactly two parts, and "24" otherwise.
binPrefixLen(cidr) ==
    LET slashes == {k \in 1..Len(cidr) : cidr[k] = "/"}
    IN  IF Cardinality(slashes) = 1
        THEN LET k == CHOOSE j \in slashes : TRUE
             IN  SubSeq(cidr, k + 1, Len(cidr))
        ELSE <<"24">>

\* The document cmdAdd hands to the delegate: the NetConf with the new Args
\* (conf.Args.CNI.OvnPort = port.ID; conf.Args.CNI.MAC = port.MACAddress, Args
\* and its CNI entry being made when they are not there), as a map, with the
\* ipam block put in. The address is the port's first fixed address.
binDelegateConfig(conf, port, subnet) ==
    [args |-> withArgs(conf.args, [port_id |-> port.id,
                                   mac_address |-> port.mac_address]),
     ipam |-> [type |-> "static",
               addresses |-> <<[address |-> <<port.fixed_ips[1].ip_address, "/">>
                                             \o binPrefixLen(subnet.cidr),
                                gateway |-> subnet.gateway_ip]>>],
     rest |-> NetConfOf(conf.doc)]

\* cmdAdd up to subnets.Get: the configuration is parsed and the client is
\* authenticated.
BinAddStart ==
    /\ bin.pc = "idle"
    /\ \E id \in BinContainerIDs : \E conf \in BinConfs :
       \E auth \in AuthOutcomes :
          LET m == [IdleBin EXCEPT !.cmd = "ADD", !.container_id = id,
                                   !.conf = conf]
          IN  bin' = IF ~conf.parses
                     THEN BinReturn(m, <<"failed to parse network config: ",
                                          "parse error">>)
                     ELSE IF auth # "ok" THEN BinReturn(m, <<auth>>)
                     ELSE [m EXCEPT !.pc = "get_subnet"]
    /\ UNCHANGED <<ports, nextID, conns, cmds, nmIn, nmOut, daemon, rq, wire>>

\* subneDetails, err := subnets.Get(client, conf.SubnetID).Extract(), and the
\* name derivation that follows it.
BinAddGetSubnet ==
    /\ bin.cmd = "ADD"
    /\ bin.pc = "get_subnet"
    /\ \/ \E subnet \in SubnetChoices :
             bin' = BinNamed([BinCalled(bin, "get_subnet", 0, "ok") EXCEPT
                                 !.subnet = subnet], "create")
       \/ bin' = BinReturn(BinCalled(bin, "get_subnet", 0, "err"),
                           <<"failed to get subnet details: ", Upstream>>)
    /\ UNCHANGED <<ports, nextID, conns, cmds, nmIn, nmOut, daemon, rq, wire>>

\* What cmdAdd does with the created port up to its next external call: a
\* port with no fixed address is cleaned up; otherwise the delegate's input
\* is assembled (a failure of the assembly goes to the cleanup too) and the
\* delegate is invoked.
binCreated(m, port, assembly) ==
    LET c == [m EXCEPT !.port = port]
    IN  IF Len(port.fixed_ips) = 0
        THEN [c EXCEPT !.pc = "cleanup",
                       !.err = <<"openstack created the port but assigned no IP">>]
        ELSE IF assembly # "ok"
        THEN [c EXCEPT !.pc = "cleanup", !.err = <<"failed to ", assembly>>]
        ELSE [c EXCEPT !.pc = "delegate",
                       !.stdin = binDelegateConfig(m.conf, port, m.subnet)]

\* port, err := ports.Create(client, createOpts).Extract()
BinAddCreate ==
    /\ bin.cmd = "ADD"
    /\ bin.pc = "create"
    /\ \/ /\ nextID <= MaxPortID
          /\ \E fips \in FixedIPChoices(bin.conf.subnet_id) :
             \E assembly \in Assemblies :
                bin' = binCreated(BinCalled(bin, "create", nextID, "ok"),
                                  [id |-> nextID, mac_address |-> MacOf(nextID),
                                   fixed_ips |-> fips],
                                  assembly)
          /\ ports' = ports \cup {[id |-> nextID, name |-> bin.name.name,
                                    network_id |-> bin.conf.network_id,
                                    attached_for |-> bin.container_id]}
          /\ nextID' = nextID + 1
       \/ /\ bin' = BinReturn(BinCalled(bin, "create", 0, "err"),
                              <<"failed to create neutron port: ", Upstream>>)
          /\ UNCHANGED <<ports, nextID>>
    /\ UNCHANGED <<conns, cmds, nmIn, nmOut, daemon, rq, wire>>

\* ports.Delete(client, port.ID); return <the failure>: what the delete
\* answered is dropped.
BinAddCleanup ==
    /\ bin.cmd = "ADD"
    /\ bin.pc = "cleanup"
    /\ \E out \in DeleteOutcomes(bin.port.id) :
          /\ ports' = PortsAfterDelete(bin.port.id, out)
          /\ bin' = BinReturn(BinCalled(bin, "delete", bin.port.id, out), bin.err)
    /\ UNCHANGED <<nextID, conns, cmds, nmIn, nmOut, daemon, rq, wire>>

\* result, err := invoke.DelegateAdd(...): a failure goes to the cleanup;
\* otherwise return result.Print(), which prints the delegate's result or
\* fails.
BinAddDelegate ==
    /\ bin.cmd = "ADD"
    /\ bin.pc = "delegate"
    /\ \/ \E res \in DelegateResults :
             \/ bin' = BinReturn([bin EXCEPT !.out = res], <<>>)
             \/ bin' = BinReturn(bin, <<"failed to print result">>)
       \/ bin' = [bin EXCEPT !.pc = "cleanup",
                             !.err = <<"failed to delegate: ", "delegate error">>]
    /\ UNCHANGED <<ports, nextID, conns, cmds, nmIn, nmOut, daemon, rq, wire>>

\* cmdDel up to the delegate: a configuration that does not parse, or a
\* NetConf that does not marshal, ends the command with success.
BinDelStart ==
    /\ bin.pc = "idle"
    /\ \E id \in BinContainerIDs : \E conf \in BinConfs :
       \E marshal \in {"ok", "marshal NetConf"} :
          LET m == [IdleBin EXCEPT !.cmd = "DEL", !.container_id = id,
                                   !.conf = conf]
          IN  bin' = IF ~conf.parses \/ marshal # "ok" THEN BinReturn(m, <<>>)
                     ELSE [m EXCEPT !.pc = "delegate", !.stdin = netConf(conf)]
    /\ UNCHANGED <<ports, nextID, conns, cmds, nmIn, nmOut, daemon, rq, wire>>

\* invoke.DelegateDel(...): whether it fails or not (a failure is written to
\* standard error), the client is authenticated and the name is derived.
BinDelDelegate ==
    /\ bin.cmd = "DEL"
    /\ bin.pc = "delegate"
    /\ \E outcome \in {"delegate returned", "delegate failed"} :
       \E auth \in AuthOutcomes :
          LET m == [bin EXCEPT !.delegate = outcome]
          IN  bin' = IF auth # "ok" THEN BinReturn(m, <<auth>>)
                     ELSE BinNamed(m, "list")
    /\ UNCHANGED <<ports, nextID, conns, cmds, nmIn, nmOut, daemon, rq, wire>>

\* allPages, err := ports.List(...).AllPages(); ports.ExtractPorts(allPages):
\* a failed list is returned; a failed extraction and an empty list end the
\* command with success.
BinDelList ==
    /\ bin.cmd = "DEL"
    /\ bin.pc = "list"
    /\ \/ LET l == ListPorts(bin.name.name, bin.conf.network_id)
              m == [BinCalled(bin, "list", 0, "ok") EXCEPT !.listed = l]
          IN  bin' = IF l = <<>> THEN BinReturn(m, <<>>)
                     ELSE [m EXCEPT !.i = 1, !.pc = "delete"]
       \/ bin' = BinReturn(BinCalled(bin, "list", 0, "err"), <<Upstream>>)
       \/ bin' = BinReturn(BinCalled(bin, "list", 0, "extract_err"), <<>>)
    /\ UNCHANGED <<ports, nextID, conns, cmds, nmIn, nmOut, daemon, rq, wire>>

\* One turn of for _, p := range foundPorts { ports.Delete(client, p.ID) }:
\* what the delete answered is dropped, and after the last port the command
\* returns nil.
BinDelDelete ==
    /\ bin.cmd = "DEL"
    /\ bin.pc = "delete"
    /\ \E out \in DeleteOutcomes(bin.listed[bin.i].id) :
          LET m == BinCalled(bin, "delete", bin.listed[bin.i].id, out)
          IN  /\ ports' = PortsAfterDelete(bin.listed[bin.i].id, out)
              /\ bin' = IF bin.i = Len(bin.listed) THEN BinReturn(m, <<>>)
                        ELSE [m EXCEPT !.i = bin.i + 1]
    /\ UNCHANGED <<nextID, conns, cmds, nmIn, nmOut, daemon, rq, wire>>

\* cmdCheck up to ports.List: the configuration is parsed, the client is
\* authenticated and the name is derived.
BinCheckStart ==
    /\ bin.pc = "idle"
    /\ \E id \in BinContainerIDs : \E conf \in BinConfs :
       \E auth \in AuthOutcomes :
          LET m == [IdleBin EXCEPT !.cmd = "CHECK", !.container_id = id,
                                   !.conf = conf]
          IN  bin' = IF ~conf.parses
                     THEN BinReturn(m, <<"failed to parse network config: ",
                                          "parse error">>)
                     ELSE IF auth # "ok" THEN BinReturn(m, <<auth>>)
                     ELSE BinNamed(m, "list")
    /\ UNCHANGED <<ports, nextID, conns, cmds, nmIn, nmOut, daemon, rq, wire>>

\* cmdCheck from ports.List up to the delegate: a failed list, a failed
\* extraction and an empty list are errors; otherwise the delegate's input
\* is assembled and the delegate is invoked.
BinCheckList ==
    /\ bin.cmd = "CHECK"
    /\ bin.pc = "list"
    /\ \/ \E assembly \in {"ok", "marshal NetConf", "unmarshal NetConf to map",
                           "marshal config"} :
             LET l == ListPorts(bin.name.name, bin.conf.network_id)
                 m == [BinCalled(bin, "list", 0, "ok") EXCEPT !.listed = l]
             IN  bin' = IF l = <<>>
                        THEN BinReturn(m, <<"neutron port not found for container">>)
                        ELSE IF assembly # "ok"
                        THEN BinReturn(m, <<"failed to ", assembly>>)
                        ELSE [m EXCEPT !.pc = "delegate",
                                       !.stdin = netConf(bin.conf)]
       \/ bin' = BinReturn(BinCalled(bin, "list", 0, "err"),
                           <<"failed to list neutron ports: ", Upstream>>)
       \/ bin' = BinReturn(BinCalled(bin, "list", 0, "extract_err"),
                           <<"neutron port not found for container">>)
    /\ UNCHANGED <<ports, nextID, conns, cmds, nmIn, nmOut, daemon, rq, wire>>

\* return invoke.DelegateCheck(...)
BinCheckDelegate ==
    /\ bin.cmd = "CHECK"
    /\ bin.pc = "delegate"
    /\ \E err \in {<<>>, <<"delegate error">>} : bin' = BinReturn(bin, err)
    /\ UNCHANGED <<ports, nextID, conns, cmds, nmIn, nmOut, daemon, rq, wire>>

\* The process has returned its result to the runtime, or has crashed, and
\* is gone.
BinExit ==
    /\ bin.pc \in {"returned", "panicked"}
    /\ bin' = IdleBin
    /\ UNCHANGED <<ports, nextID, conns, cmds, nmIn, nmOut, daemon, rq, wire>>

----------------------------------------------------------------------------
(* The daemon process *)

NoPeer == [uid |-> -1, cred |-> "none"]

\* The daemon process. phase: where main is; socket: what is at the socket
\* path ("none", "stale": a file left by an earlier run, "own": the socket
\* this run bound); exit: the exit status, -1 while it runs; at: the step a
\* fatal error came from; accepted: the connections Accept has handed to the
\* server whose request is not dispatched yet; peers: the peer of each
\* connection handed to the server; rejected: the last peer Accept turned
\* away; inflight: the requests that were being handled when the signal
\* came; run: how many times the process was started again.
\* The daemon once main has reached srv.Serve: its own socket file is at the
\* socket path and the listener accepts connections.
Serving == [phase |-> "serving", socket |-> "own", exit |-> -1, at |-> "",
            accepted |-> {}, peers |-> [s \in Slots |-> NoPeer],
            rejected |-> NoPeer, inflight |-> {}, run |-> 0]

\* main up to srv.Serve, step by step.
StartupSteps == <<"env", "auth", "client", "mkdir", "remove", "listen", "chmod">>

StepAfter(phase) ==
    LET k == CHOOSE j \in 1..Len(StartupSteps) : StartupSteps[j] = phase
    IN  IF k = Len(StartupSteps) THEN "serving" ELSE StartupSteps[k + 1]

\* What is at the socket path after a step that went well: os.Remove takes a
\* stale file away, net.ListenUnix binds this run's socket.
SocketAfter(phase, socket) ==
    IF phase = "remove" THEN "none"
    ELSE IF phase = "listen" THEN "own"
    ELSE socket

\* The process is gone: the handlers that were running are cut off where they
\* were.
Cut(cs) ==
    [s \in Slots |-> IF cs[s].pc \in {"idle", "done"} THEN cs[s]
                     ELSE [cs[s] EXCEPT !.pc = "killed"]]

\* log.Fatalf: the process exits with status 1 on the spot; nothing is
\* cleaned up.
Fatal(d, at) == [d EXCEPT !.phase = "exited", !.exit = 1, !.at = at,
                          !.accepted = {}]

\* One step of main before srv.Serve: it goes well, or it fails and the
\* process exits. os.Remove of a path where nothing is cannot fail
\* (os.IsNotExist is let through).
Startup ==
    /\ \E k \in 1..Len(StartupSteps) : daemon.phase = StartupSteps[k]
    /\ \/ daemon' = [daemon EXCEPT
                        !.phase = StepAfter(daemon.phase),
                        !.socket = SocketAfter(daemon.phase, daemon.socket)]
       \/ /\ daemon.phase = "remove" => daemon.socket = "stale"
          /\ daemon' = Fatal(daemon, daemon.phase)
    /\ UNCHANGED <<ports, nextID, conns, cmds, nmIn, nmOut, rq, wire, bin>>

\* The peers of a connection: the user it runs as, and what reading its
\* credential gives.
Peers == [uid : {0, 1000},
          cred : {"ok", "raw conn error", "raw control error",
                  "getsockopt error"}]

\* A plausible slip: any peer whose credential could be read is let in.
AdmitsAnyUid(peer) == peer.cred = "ok"

\* Accept hands the connection to the server only if the credential was read
\* and its UID is 0.
Admits(peer) == peer.cred = "ok" /\ peer.uid = 0

\* srv.Serve returns an error that Accept gave it: its deferred l.Close()
\* closes the listener, which unlinks the socket file (the listener was made
\* by net.ListenUnix), and main ends the process with log.Fatalf.
ServeReturned(d) == [Fatal(d, "serve") EXCEPT !.socket = "none"]

\* peerCredListener.Accept and what srv.Serve does with what it returns.
\* AcceptUnix fails: the error is returned as it is; srv.Serve waits and
\* calls Accept again after a temporary one and returns any other.
\* A connection came, taken from slot r: it is handed to the server when its
\* peer is admitted; otherwise it is closed and the error Accept returns,
\* which is not temporary, makes srv.Serve return.
Accept(r) ==
    /\ daemon.phase = "serving"
    /\ \/ \E e \in {"temporary", "not temporary"} :
             IF e = "temporary"
             THEN UNCHANGED <<daemon, conns>>
             ELSE /\ daemon' = ServeReturned(daemon)
                  /\ conns' = Cut(conns)
       \/ /\ conns[r].pc = "idle"
          /\ r \notin daemon.accepted
          /\ \A s \in Slots :
                s < r => (conns[s].pc # "idle" \/ s \in daemon.accepted)
          /\ \E peer \in Peers :
                IF Admits(peer)
                THEN /\ daemon' = [daemon EXCEPT !.accepted = @ \cup {r},
                                                  !.peers[r] = peer]
                     /\ UNCHANGED conns
                ELSE /\ daemon' = [ServeReturned(daemon) EXCEPT
                                       !.rejected = peer]
                     /\ conns' = Cut(conns)
    /\ UNCHANGED <<ports, nextID, cmds, nmIn, nmOut, rq, wire, bin>>

\* mux: the handler of the request's path runs up to its first control-plane
\* call.
Route(c) ==
    IF c.route = "/health" THEN healthHandler(c)
    ELSE IF c.route = "/add" THEN addEntry(c)
    ELSE IF c.route = "/del" THEN delEntry(c)
    ELSE checkEntry(c)

\* The server reads the request of a connection it was handed and calls the
\* handler.
Dispatch(r) ==
    /\ daemon.phase \in {"serving", "stopping"}
    /\ r \in daemon.accepted
    /\ \E q \in {<<"/health", "GET", NoBody>>,
                 <<"/add", "POST", Body("object", <<CidC, "net-1", "sub-1">>)>>,
                 <<"/del", "POST", Body("object", <<CidC, "net-1", "">>)>>,
                 <<"/check", "POST", Body("object", <<CidC, "net-1", "">>)>>} :
          conns' = [conns EXCEPT ![r] = Route(Conn(q[1], q[2], q[3]))]
    /\ daemon' = [daemon EXCEPT !.accepted = @ \ {r}]
    /\ UNCHANGED <<ports, nextID, cmds, nmIn, nmOut, rq, wire, bin>>

Running(c) == c.pc \notin {"idle", "done", "killed"}

\* SIGTERM or SIGINT: the goroutine calls srv.Shutdown, which closes the
\* listener (closing a listener made by net.ListenUnix unlinks its socket
\* file) and makes srv.Serve return http.ErrServerClosed at once.
Signal ==
    /\ daemon.phase = "serving"
    /\ daemon' = [daemon EXCEPT
                     !.phase = "stopping",
                     !.socket = "none",
                     !.inflight = {s \in Slots : Running(conns[s])}]
    /\ UNCHANGED <<ports, nextID, conns, cmds, nmIn, nmOut, rq, wire, bin>>

\* main after srv.Serve has returned http.ErrServerClosed: os.Remove of the
\* socket path, "daemon stopped", and main returns, which ends the process
\* whatever srv.Shutdown and the handlers are doing.
Stop ==
    /\ daemon.phase = "stopping"
    /\ daemon' = [daemon EXCEPT !.phase = "exited", !.exit = 0,
                                !.socket = "none", !.accepted = {}]
    /\ conns' = Cut(conns)
    /\ UNCHANGED <<ports, nextID, cmds, nmIn, nmOut, rq, wire, bin>>

NoWire == [pc |-> "idle", in |-> [type |-> "", val |-> <<>>], text |-> <<>>,
           out |-> <<>>]

NoRq == [pc |-> "idle", status |-> 0, resp |-> NoResp, decodes |-> FALSE,
         fate |-> "none", out |-> <<>>]

----------------------------------------------------------------------------
(* The daemon serving root peers *)

NoName == [add |-> <<>>, del |-> <<>>, check |-> <<>>,
           plugin |-> [panics |-> FALSE, name |-> <<>>]]

\* The daemon serves; earlier attaches of container CidA have left ports on
\* net-1.
Init ==
    /\ \E k \in 0..MaxInitPorts :
          /\ ports = {[id |-> n, name |-> portName(CidA),
                        network_id |-> "net-1", attached_for |-> CidA] :
                         n \in 1..k}
          /\ nextID = k + 1
    /\ conns = [s \in Slots |-> IdleConn]
    /\ cmds = [p \in Procs |-> IdleCmd]
    /\ nmIn = <<>>
    /\ nmOut = NoName
    /\ daemon = Serving
    /\ rq = NoRq
    /\ wire = NoWire
    /\ bin = IdleBin

Next ==
    \/ \E r \in Slots :
          \/ ServeHealth(r)
          \/ ServeAdd(r)
          \/ ServeDel(r)
          \/ ServeCheck(r)
          \/ AddCreate(r)
          \/ AddGetSubnet(r)
          \/ AddRollback(r)
          \/ DelList(r)
          \/ DelDelete(r)
          \/ CheckList(r)
          \/ Close(r)

Spec == Init /\ [][Next]_vars

----------------------------------------------------------------------------
(* The daemon serving the CNI plugin's processes *)

NextCNI ==
    \/ \E p \in Procs :
          \/ CmdAddStart(p)
          \/ CmdAddResponse(p)
          \/ CmdAddDelegate(p)
          \/ CmdAddCompensate(p)
          \/ CmdAddCompensated(p)
          \/ CmdDelStart(p)
          \/ CmdDelDelegate(p)
          \/ CmdDelResponse(p)
          \/ CmdCheckStart(p)
          \/ CmdCheckResponse(p)
          \/ CmdCheckDelegate(p)
          \/ Exit(p)
    \/ \E r \in Slots :
          \/ AddCreate(r)
          \/ AddGetSubnet(r)
          \/ AddRollback(r)
          \/ DelList(r)
          \/ DelDelete(r)
          \/ CheckList(r)

SpecCNI == Init /\ [][NextCNI]_vars

----------------------------------------------------------------------------
(* The daemon process from its start to its exit *)

InitDaemon ==
    /\ \E socket \in {"none", "stale"} :
          daemon = [Serving EXCEPT !.phase = "env", !.socket = socket]
    /\ \E k \in 0..MaxInitPorts :
          /\ ports = {[id |-> n, name |-> portName(CidC), network_id |-> "net-1",
                        attached_for |-> CidC] : n \in 1..k}
          /\ nextID = k + 1
    /\ conns = [s \in Slots |-> IdleConn]
    /\ cmds = [p \in Procs |-> IdleCmd]
    /\ nmIn = <<>>
    /\ nmOut = NoName
    /\ rq = NoRq
    /\ wire = NoWire
    /\ bin = IdleBin

NextDaemon ==
    \/ Startup
    \/ Signal
    \/ Stop
    \/ \E r \in Slots :
          \/ Accept(r)
          \/ Dispatch(r)
          \/ AddCreate(r)
          \/ AddGetSubnet(r)
          \/ AddRollback(r)
          \/ DelList(r)
          \/ DelDelete(r)
          \/ CheckList(r)
          \/ Close(r)

SpecDaemon == InitDaemon /\ [][NextDaemon]_vars

----------------------------------------------------------------------------
(* The daemon process ending and being started again *)

\* The process has exited and main runs again from its first line: nothing
\* of the old process is in the new one. A socket file the old process left
\* is a stale file to the new one; the connections of the requests that were
\* cut off are gone.
Relaunch ==
    /\ daemon.phase = "exited"
    /\ daemon.run < MaxRestarts
    /\ daemon' = [Serving EXCEPT
                     !.phase = "env",
                     !.socket = IF daemon.socket = "none" THEN "none"
                                ELSE "stale",
                     !.run = daemon.run + 1]
    /\ conns' = [s \in Slots |-> IF conns[s].pc = "killed" THEN IdleConn
                                  ELSE conns[s]]
    /\ UNCHANGED <<ports, nextID, cmds, nmIn, nmOut, rq, wire, bin>>

NextRestart ==
    \/ NextDaemon
    \/ Relaunch

SpecRestart == InitDaemon /\ [][NextRestart]_vars

----------------------------------------------------------------------------
(* The name derivation on its own: a container ID is drawn, and the three  *)
(* handlers derive the port name from it.                                  *)

IdSeqs == UNION {[1..n -> {"a", "b"}] : n \in 0..MaxIdLen}

DeriveNames ==
    /\ nmOut = NoName
    /\ nmOut' = [add |-> AddName([NoReq EXCEPT !.container_id = nmIn]),
                 del |-> DelName([NoReq EXCEPT !.container_id = nmIn]),
                 check |-> CheckName([NoReq EXCEPT !.container_id = nmIn]),
                 plugin |-> pluginPortName(nmIn)]
    /\ UNCHANGED <<ports, nextID, conns, cmds, nmIn, daemon, rq, wire, bin>>

InitName ==
    /\ nmIn \in IdSeqs
    /\ nmOut = NoName
    /\ ports = {}
    /\ nextID = 1
    /\ conns = [s \in Slots |-> IdleConn]
    /\ cmds = [p \in Procs |-> IdleCmd]
    /\ daemon = Serving
    /\ rq = NoRq
    /\ wire = NoWire
    /\ bin = IdleBin

SpecName == InitName /\ [][DeriveNames]_vars

----------------------------------------------------------------------------
(* The single-binary plugin's processes, one after the other, on a control  *)
(* plane that holds ports the daemon created.                               *)

InitPlugin ==
    /\ \E k \in 0..MaxInitPorts : \E owner \in {CidA, CidC} :
          /\ ports = {[id |-> n, name |-> portName(owner),
                        network_id |-> "net-1", attached_for |-> owner] :
                         n \in 1..k}
          /\ nextID = k + 1
    /\ conns = [s \in Slots |-> IdleConn]
    /\ cmds = [p \in Procs |-> IdleCmd]
    /\ nmIn = <<>>
    /\ nmOut = NoName
    /\ daemon = Serving
    /\ rq = NoRq
    /\ wire = NoWire
    /\ bin = IdleBin

NextPlugin ==
    \/ BinAddStart
    \/ BinAddGetSubnet
    \/ BinAddCreate
    \/ BinAddCleanup
    \/ BinAddDelegate
    \/ BinDelStart
    \/ BinDelDelegate
    \/ BinDelList
    \/ BinDelDelete
    \/ BinCheckStart
    \/ BinCheckList
    \/ BinCheckDelegate
    \/ BinExit

SpecPlugin == InitPlugin /\ [][NextPlugin]_vars

----------------------------------------------------------------------------
(* daemonRequest on its own: a response of whatever server listens at the   *)
(* socket path reaches the client, and daemonRequest returns.               *)

\* The bodies a response may carry: none, bytes that are no JSON, an error
\* envelope with and without a message, and JSON objects of other kinds.
InitReq ==
    /\ \E status \in {101, 200, 204, 299, 300, 400, 404, 500} :
       \E resp \in {NoResp, [NoResp EXCEPT !.kind = "garbage"],
                    ErrorResponse(<<"boom">>), ErrorResponse(<<>>),
                    DelResponse(TRUE), CheckResponse(TRUE)} :
       \E decodes \in BOOLEAN :
          rq = [NoRq EXCEPT !.pc = "answered", !.status = status,
                            !.resp = resp, !.decodes = decodes]
    /\ ports = {}
    /\ nextID = 1
    /\ conns = [s \in Slots |-> IdleConn]
    /\ cmds = [p \in Procs |-> IdleCmd]
    /\ nmIn = <<>>
    /\ nmOut = NoName
    /\ daemon = Serving
    /\ wire = NoWire
    /\ bin = IdleBin

DaemonRequestReturns ==
    /\ rq.pc = "answered"
    /\ \E fate \in Fates :
          rq' = [rq EXCEPT !.pc = "returned", !.fate = fate,
                           !.out = daemonRequest(rq, fate, rq.decodes)]
    /\ UNCHANGED <<ports, nextID, conns, cmds, nmIn, nmOut, daemon, wire, bin>>

SpecReq == InitReq /\ [][DaemonRequestReturns]_vars

----------------------------------------------------------------------------
(* The envelopes of package api and their JSON text.  A string is the       *)
(* sequence of its characters; "xFF" stands for a byte that is not valid    *)
(* UTF-8 and "U+FFFD" for the replacement character.  A JSON object is the  *)
(* sequence of its members, a member's value the sequence of its tokens.    *)

\* The fields of each envelope, in the order of their declaration.
FieldsOf(type) ==
    CASE type = "AddRequest" -> <<"ContainerID", "NetworkID", "SubnetID">>
      [] type = "AddResponse" ->
            <<"PortID", "MACAddress", "IPAddress", "PrefixLength", "GatewayIP">>
      [] type = "DelRequest" -> <<"ContainerID", "NetworkID">>
      [] type = "DelResponse" -> <<"OK">>
      [] type = "CheckRequest" -> <<"ContainerID", "NetworkID">>
      [] type = "CheckResponse" -> <<"Exists">>
      [] type = "ErrorResponse" -> <<"Error">>

FieldSet(type) == {FieldsOf(type)[k] : k \in 1..Len(FieldsOf(type))}

\* The fields of type bool; every other field is a string.
BoolFields == {"OK", "Exists"}

\* A plausible slip: a field without a tag goes by its Go name.
TagIsFieldName(f) == f

\* The json tag of a field.
Tag(f) ==
    CASE f = "ContainerID" -> "container_id"
      [] f = "NetworkID" -> "network_id"
      [] f = "SubnetID" -> "subnet_id"
      [] f = "PortID" -> "port_id"
      [] f = "MACAddress" -> "mac_address"
      [] f = "IPAddress" -> "ip_address"
      [] f = "PrefixLength" -> "prefix_length"
      [] f = "GatewayIP" -> "gateway_ip"
      [] f = "OK" -> "ok"
      [] f = "Exists" -> "exists"
      [] f = "Error" -> "error"

\* encoding/json writing one character of a string: a quote is escaped, a
\* byte that is not valid UTF-8 is written as the escape of U+FFFD, anything
\* else as it is.
Escape(ch) ==
    CASE ch = "\"" -> "\\\""
      [] ch = "xFF" -> "\\ufffd"
      [] OTHER -> ch

\* encoding/json reading one token of a string.
Unescape(tok) ==
    CASE tok = "\\\"" -> "\""
      [] tok = "\\ufffd" -> "U+FFFD"
      [] OTHER -> tok

EncodeValue(f, v) ==
    IF f \in BoolFields
    THEN IF v THEN <<"true">> ELSE <<"false">>
    ELSE <<"\"">> \o [k \in 1..Len(v) |-> Escape(v[k])] \o <<"\"">>

\* The zero value of a field.
Zero(f) == IF f \in BoolFields THEN FALSE ELSE <<>>

DecodeValue(f, t) ==
    IF f \in BoolFields
    THEN t = <<"true">>
    ELSE [k \in 1..(Len(t) - 2) |-> Unescape(t[k + 1])]

\* json.Marshal of an envelope: one member per field, under the field's tag
\* (no tag has omitempty).
Marshal(e) ==
    [k \in 1..Len(FieldsOf(e.type)) |->
        LET f == FieldsOf(e.type)[k]
        IN  [key |-> Tag(f), value |-> EncodeValue(f, e.val[f])]]

\* json.Unmarshal into an envelope of the given type: a field takes the value
\* of the member under its tag, and keeps its zero value when there is none.
Unmarshal(type, text) ==
    [f \in FieldSet(type) |->
        IF \E k \in 1..Len(text) : text[k].key = Tag(f)
        THEN LET k == CHOOSE j \in 1..Len(text) :
                          /\ text[j].key = Tag(f)
                          /\ \A h \in (j + 1)..Len(text) : text[h].key # Tag(f)
             IN  DecodeValue(f, text[k].value)
        ELSE Zero(f)]

\* The strings a field may hold.
Strs == UNION {[1..n -> {"a", "\"", "xFF", "U+FFFD"}] : n \in 0..MaxStrLen}

\* The fields of an envelope that are given a value of their own, the others
\* keeping their zero value: at most MaxFilled of its string fields.
Filled(type) ==
    IF FieldSet(type) \subseteq BoolFields
    THEN {FieldSet(type)}
    ELSE {T \in SUBSET FieldSet(type) : Cardinality(T) <= MaxFilled}

\* The values a field of the type may hold.
FieldValues(type) ==
    IF FieldSet(type) \subseteq BoolFields THEN BOOLEAN ELSE Strs

\* The envelope of the given type whose fields in S hold g.
Envelope(type, S, g) ==
    [type |-> type,
     val |-> [f \in FieldSet(type) |-> IF f \in S THEN g[f] ELSE Zero(f)]]

InitWire ==
    /\ \E t \in {"AddRequest", "AddResponse", "DelRequest", "DelResponse",
                 "CheckRequest", "CheckResponse", "ErrorResponse"} :
       \E S \in Filled(t) :
       \E g \in [S -> FieldValues(t)] :
          wire = [NoWire EXCEPT !.pc = "in", !.in = Envelope(t, S, g)]
    /\ ports = {}
    /\ nextID = 1
    /\ conns = [s \in Slots |-> IdleConn]
    /\ cmds = [p \in Procs |-> IdleCmd]
    /\ nmIn = <<>>
    /\ nmOut = NoName
    /\ daemon = Serving
    /\ rq = NoRq
    /\ bin = IdleBin

\* The sender serializes the envelope.
Serialize ==
    /\ wire.pc = "in"
    /\ wire' = [wire EXCEPT !.pc = "text", !.text = Marshal(wire.in)]
    /\ UNCHANGED <<ports, nextID, conns, cmds, nmIn, nmOut, daemon, rq, bin>>

\* The receiver deserializes the text into an envelope of the same type.
Deserialize ==
    /\ wire.pc = "text"
    /\ wire' = [wire EXCEPT !.pc = "out",
                            !.out = Unmarshal(wire.in.type, wire.text)]
    /\ UNCHANGED <<ports, nextID, conns, cmds, nmIn, nmOut, daemon, rq, bin>>

SpecWire == InitWire /\ [][Serialize \/ Deserialize]_vars

----------------------------------------------------------------------------
(* Properties *)

Done(c) == c.pc = "done"

HasCall(c, op, out) ==
    \E k \in 1..Len(c.calls) : c.calls[k].op = op /\ c.calls[k].out = out

DeleteCalls(c) == {k \in 1..Len(c.calls) : c.calls[k].op = "delete"}

\* A request that names its container and network (and, for /add, its subnet)
\* in a body that is one JSON object.
WellFormed(c) ==
    /\ c.method = "POST"
    /\ c.body.shape = "object"
    /\ c.body.container_id # <<>>
    /\ c.body.network_id # ""
    /\ c.route = "/add" => c.body.subnet_id # ""

\* The control plane answered every call of the request without a failure.
Healthy(c) ==
    \A k \in 1..Len(c.calls) : c.calls[k].out \in {"ok", "404"}

OkTrue(c) == c.status = 200 /\ c.resp = DelResponse(TRUE)

RolledBack(c) ==
    /\ c.route = "/add"
    /\ Done(c)
    /\ HasCall(c, "create", "ok")
    /\ HasCall(c, "get_subnet", "err")

\* C1 as stated: once /add has answered the error of a failed subnet fetch, the
\* port it created is gone from the control plane, whatever the rollback's
\* delete call answered.
C1_RollbackAlwaysRemoves ==
    \A r \in Slots :
        RolledBack(conns[r]) => conns[r].port.id \notin PortIDs

\* C4: of two /del requests for the same container and network, the second
\* arriving after the first was answered, each one that met no control-plane
\* failure is answered 200 ok:true, also when the second lists no port.
C4_DetachIdempotent ==
    \A r \in Slots : \A s \in conns[r].pred :
        (/\ WellFormed(conns[r]) /\ WellFormed(conns[s])
         /\ conns[r].body = conns[s].body
         /\ Done(conns[r]))
            => /\ Healthy(conns[s]) => OkTrue(conns[s])
               /\ Healthy(conns[r]) => OkTrue(conns[r])

C4_Witness ==
    \E r \in Slots : \E s \in conns[r].pred :
        /\ WellFormed(conns[r]) /\ conns[r].body = conns[s].body
        /\ Done(conns[r])
        /\ OkTrue(conns[s]) /\ Len(conns[s].listed) > 0
        /\ OkTrue(conns[r]) /\ conns[r].listed = <<>>
        /\ HasCall(conns[r], "list", "ok")

\* C5: when /del has answered ok:true, no port that its list returned is in
\* the control plane, whatever other requests ran in between.
C5_DetachDeletesEveryMatch ==
    \A r \in Slots :
        (conns[r].route = "/del" /\ Done(conns[r]) /\ OkTrue(conns[r]))
            => \A k \in 1..Len(conns[r].listed) :
                   conns[r].listed[k].id \notin PortIDs

C5_Witness ==
    \E r \in Slots : \E s \in Slots :
        /\ conns[r].route = "/del" /\ OkTrue(conns[r])
        /\ Len(conns[r].listed) >= 2
        /\ s # r /\ conns[s].route = "/add" /\ conns[s].status = 200
        /\ conns[s].port.id \in PortIDs

\* C6: a 404 from the delete of a listed port does not stop /del: the loop
\* goes on to the next listed port, and a request whose only delete failures
\* were 404s has deleted through the whole list and is answered ok:true.
C6_DeleteNotFoundIsSuccess ==
    \A r \in Slots :
        LET c == conns[r]
            n == Len(c.calls)
        IN  (c.route = "/del" /\ HasCall(c, "delete", "404"))
            => /\ (c.calls[n].out = "404" /\ n - 1 < Len(c.listed))
                      => (c.pc = "delete" /\ c.i = n)
               /\ (Done(c) /\ Healthy(c))
                      => (OkTrue(c) /\ Cardinality(DeleteCalls(c)) = Len(c.listed))

C6_Witness ==
    \E r \in Slots :
        LET c == conns[r]
        IN  /\ c.route = "/del" /\ OkTrue(c)
            /\ Len(c.calls) = 3
            /\ c.calls[2].out = "404"
            /\ c.calls[3].out = "ok"

\* C7: in /del a delete that fails with anything but 404 is the last call of
\* the request: no later listed port is deleted, and the answer is 500 with
\* an error envelope.
C7_DeleteFailureAborts ==
    \A r \in Slots :
        LET c == conns[r]
        IN  \A k \in DeleteCalls(c) :
                (c.route = "/del" /\ c.calls[k].out = "err")
                    => /\ k = Len(c.calls)
                       /\ Done(c)
                       /\ c.status = 500
                       /\ c.resp.kind = "error"
                       /\ c.resp.error # <<>>

C7_Witness ==
    \E r \in Slots :
        LET c == conns[r]
        IN  /\ c.route = "/del" /\ Done(c)
            /\ Len(c.listed) = 2
            /\ Len(c.calls) = 2
            /\ c.calls[2] = Call("delete", c.listed[1].id, "err")
            /\ c.listed[2].id \in PortIDs
            /\ c.status = 500

\* C8: a valid /check whose list call succeeded is answered 200 with exists
\* true exactly when the list returned a port; its only control-plane call is
\* that list.
C8_CheckIsListNonEmpty ==
    \A r \in Slots :
        LET c == conns[r]
        IN  (c.route = "/check" /\ Done(c) /\ HasCall(c, "list", "ok"))
            => /\ c.status = 200
               /\ c.resp = CheckResponse(c.listed # <<>>)
               /\ c.calls = <<Call("list", 0, "ok")>>

C8_Witness ==
    \E r \in Slots : \E s \in Slots :
        /\ conns[r].route = "/check" /\ conns[r].status = 200
        /\ conns[r].resp.exists /\ Len(conns[r].listed) = 1
        /\ conns[s].route = "/check" /\ conns[s].status = 200
        /\ ~conns[s].resp.exists /\ conns[s].listed = <<>>

\* A POST request that validation has to reject: its body is not one JSON
\* object, or a required field is empty.
Rejectable(c) ==
    /\ c.route \in {"/add", "/del", "/check"}
    /\ c.method = "POST"
    /\ ~WellFormed(c)

\* C9 as stated: a request with an empty required field or a malformed body
\* is answered 400 with an error envelope and makes no control-plane call.
C9_ValidationBeforeCalls ==
    \A r \in Slots :
        Rejectable(conns[r])
            => /\ conns[r].calls = <<>>
               /\ Done(conns[r]) => /\ conns[r].status = 400
                                    /\ conns[r].resp.kind = "error"

\* The first NameLen characters of a container ID, or all of a shorter one.
Leading(id) == [k \in 1..(IF Len(id) < NameLen THEN Len(id) ELSE NameLen) |-> id[k]]

\* C10: the name every handler derives is "k8s-pod-" followed by the first 12
\* characters of the container ID, by the whole ID when it is shorter, and by
\* nothing when it is empty.
C10_PortNameIsPrefixOfId ==
    nmOut # NoName
        => \A h \in {"add", "del", "check"} :
               /\ nmOut[h] = Prefix \o Leading(nmIn)
               /\ Len(nmIn) >= NameLen => Len(nmOut[h]) = Len(Prefix) + NameLen
               /\ Len(nmIn) < NameLen => nmOut[h] = Prefix \o nmIn
               /\ nmIn = <<>> => nmOut[h] = Prefix

C10_Witness ==
    /\ nmOut # NoName
    /\ Len(nmIn) > NameLen
    /\ nmIn[NameLen] # nmIn[NameLen + 1]
    /\ nmOut.add = Prefix \o SubSeq(nmIn, 1, NameLen)

Returned(m) == m.pc = "returned"

DelegateFailed(m) ==
    /\ m.cmd = "ADD"
    /\ Returned(m)
    /\ m.err = <<"failed to delegate: ", "delegate error">>

\* C2 as stated: when cmdAdd returns the error of a failed delegate ADD, the
\* port its /add reserved is gone from the control plane, whatever became of
\* the compensating /del.
C2_DelegateFailureAlwaysReleases ==
    \A p \in Procs :
        DelegateFailed(cmds[p]) => cmds[p].reserved \notin PortIDs

\* C3: every cmdAdd that returns an error leaves no port created on its
\* behalf in the control plane.
C3_FailedAttachLeavesNoPort ==
    \A p \in Procs :
        (/\ cmds[p].cmd = "ADD"
         /\ Returned(cmds[p])
         /\ cmds[p].err # <<>>
         /\ cmds[p].reserved # 0)
            => cmds[p].reserved \notin PortIDs


----------------------------------------------------------------------------
(* Scoping by container *)

\* C11: operations are scoped to their own container. A /del for container A
\* (the compensating /del of a failed attach of A included) deletes no port
\* that was attached for another container B, and a /check for A answers
\* exists:true only if a port attached for A is among the listed ones; A and
\* B range over all pairs of different container IDs, those that agree on
\* their first 12 characters included.
C11_OperationsScopedToOwnContainer ==
    \A r \in Slots :
        LET c == conns[r]
        IN  /\ c.route = "/del" =>
                \A k \in 1..Len(c.calls) :
                    (c.calls[k].op = "delete" /\ c.calls[k].out = "ok") =>
                        \A j \in 1..Len(c.listed) :
                            c.listed[j].id = c.calls[k].id =>
                                c.listed[j].attached_for = c.req.container_id
            /\ (c.route = "/check" /\ Done(c) /\ c.resp.exists) =>
                \E j \in 1..Len(c.listed) :
                    c.listed[j].attached_for = c.req.container_id

----------------------------------------------------------------------------
(* cmdDel and cmdCheck *)

InSteps(m, step) == \E k \in 1..Len(m.steps) : m.steps[k] = step

DelegateReturns == {"delegate returned", "delegate failed"}

\* C12: cmdDel never returns a failure: it returns nil when the configuration
\* does not parse (nothing is contacted then), when the delegate DEL fails,
\* when the daemon cannot be reached and when the daemon answers /del with an
\* error.
C12_CmdDelNeverFails ==
    \A p \in Procs :
        LET m == cmds[p]
        IN  (m.cmd = "DEL" /\ Returned(m)) =>
                /\ m.err = <<>>
                /\ ~m.conf.parses => m.steps = <<>>

\* cmdDel has returned after a failed delegate and an error answer of the
\* daemon.
C12_Witness ==
    \E p \in Procs :
        LET m == cmds[p]
        IN  /\ m.cmd = "DEL"
            /\ Returned(m)
            /\ InSteps(m, "delegate failed")
            /\ m.via = "received"
            /\ m.derr # <<>>

\* C13: teardown order in cmdDel: the delegate DEL is the first thing cmdDel
\* calls, the /del request is sent only after the delegate DEL has returned,
\* and once the delegate DEL has returned, with or without an error, cmdDel
\* does not return before it has sent the /del request.
C13_TeardownOrder ==
    \A p \in Procs :
        LET m == cmds[p]
        IN  m.cmd = "DEL" =>
                /\ m.steps # <<>> => m.steps[1] = "delegate DEL"
                /\ \A k \in 1..Len(m.steps) :
                       m.steps[k] = "request /del" =>
                           /\ k = 3
                           /\ m.steps[2] \in DelegateReturns
                /\ (Returned(m) /\ \E k \in 1..Len(m.steps) :
                                       m.steps[k] \in DelegateReturns)
                       => InSteps(m, "request /del")

\* cmdDel has returned after a failed delegate, having sent /del and got its
\* answer.
C13_Witness ==
    \E p \in Procs :
        LET m == cmds[p]
        IN  /\ m.cmd = "DEL"
            /\ Returned(m)
            /\ m.steps = <<"delegate DEL", "delegate failed", "request /del">>
            /\ m.via = "received"
            /\ m.derr = <<>>

\* C14: cmdCheck treats absence as a failure of its own: when the daemon has
\* answered /check with exists:false, cmdCheck returns the "not found" error
\* (not nil, and not one of daemonRequest's errors) and the delegate CHECK is
\* not invoked.
C14_CheckAbsentIsNotFound ==
    \A p \in Procs :
        LET m == cmds[p]
        IN  (m.cmd = "CHECK" /\ Returned(m) /\ InSteps(m, "exists:false")) =>
                /\ m.err # <<>>
                /\ \E k \in 1..Len(m.err) : m.err[k] = "not found"
                /\ m.derr = <<>>
                /\ m.err[1] \notin {"daemon error: ", "daemon returned status ",
                                    "daemon request failed: "}
                /\ ~InSteps(m, "delegate CHECK")

C14_Witness ==
    \E p \in Procs :
        LET m == cmds[p]
        IN  /\ m.cmd = "CHECK"
            /\ Returned(m)
            /\ m.via = "received"
            /\ InSteps(m, "exists:false")

\* C15: cmdCheck invokes the delegate CHECK only after the daemon has
\* answered /check with exists:true, and once the delegate is invoked its
\* outcome, nil or its error, is what cmdCheck returns.
C15_DelegateCheckAfterExists ==
    \A p \in Procs :
        LET m == cmds[p]
        IN  m.cmd = "CHECK" =>
                /\ \A k \in 1..Len(m.steps) :
                       m.steps[k] = "delegate CHECK" =>
                           /\ k > 1
                           /\ m.steps[k - 1] = "exists:true"
                           /\ m.via = "received"
                /\ (Returned(m) /\ InSteps(m, "delegate CHECK")) =>
                       \/ InSteps(m, "delegate failed") /\ m.err = DelegateError
                       \/ InSteps(m, "delegate returned") /\ m.err = <<>>

\* cmdCheck has returned the error of the delegate it invoked.
C15_Witness ==
    \E p \in Procs :
        LET m == cmds[p]
        IN  /\ m.cmd = "CHECK"
            /\ Returned(m)
            /\ InSteps(m, "exists:true")
            /\ InSteps(m, "delegate failed")
            /\ m.err = DelegateError

\* C16: a daemon that cannot be reached is a condition of its own. cmdAdd and
\* cmdCheck then fail with the "daemon request failed" error and never invoke
\* the delegate; an error answered by the daemon gives a "daemon error" or
\* "daemon returned status" error, never that one; cmdDel goes on after the
\* delegate and returns nil.
C16_TransportFailureDistinct ==
    \A p \in Procs :
        LET m == cmds[p]
        IN  Returned(m) =>
                /\ (m.cmd \in {"ADD", "CHECK"} /\ m.via = "unreachable") =>
                       /\ m.err # <<>>
                       /\ m.err[1] = "daemon request failed: "
                       /\ \A k \in 1..Len(m.steps) :
                              m.steps[k] \notin {"delegate ADD", "delegate CHECK"}
                /\ (m.cmd \in {"ADD", "CHECK"} /\ m.via = "received"
                        /\ m.derr # <<>>) =>
                       /\ m.err = m.derr
                       /\ m.err[1] \in {"daemon error: ", "daemon returned status "}
                /\ (m.cmd = "DEL" /\ m.via = "unreachable") =>
                       /\ m.err = <<>>
                       /\ InSteps(m, "delegate DEL")

\* cmdCheck has returned without having reached the daemon.
C16_Witness ==
    \E p \in Procs :
        LET m == cmds[p]
        IN  /\ m.cmd = "CHECK"
            /\ Returned(m)
            /\ m.via = "unreachable"
            /\ m.err = DaemonRequestFailed

----------------------------------------------------------------------------
(* daemonRequest *)

BodyRead(q) == q.pc = "returned" /\ q.fate \in {"received", "undecodable"}

Non2xx(status) == status < 200 \/ status >= 300

\* C17: daemonRequest turns every response whose status is not 2xx into an
\* error and never decodes it as a success body: the error carries the
\* envelope's message when the body is an error envelope with a message, and
\* the status code and the raw body otherwise (no envelope, not JSON, or an
\* empty message).
C17_Non2xxIsAnError ==
    (BodyRead(rq) /\ Non2xx(rq.status)) =>
        /\ rq.out # <<>>
        /\ rq.out[1] # "failed to decode response: "
        /\ IF rq.resp.kind = "error" /\ rq.resp.error # <<>>
           THEN rq.out = <<"daemon error: ">> \o rq.resp.error
           ELSE /\ Len(rq.out) >= 3
                /\ rq.out[1] = "daemon returned status "
                /\ rq.out[2] = ToString(rq.status)
                /\ SubSeq(rq.out, 4, Len(rq.out)) = RawBody(rq.resp)

\* A 500 whose envelope has an empty message has been reported by its status
\* and body.
C17_Witness ==
    /\ BodyRead(rq)
    /\ rq.status = 500
    /\ rq.resp = ErrorResponse(<<>>)
    /\ rq.out[1] = "daemon returned status "

----------------------------------------------------------------------------
(* The daemon process *)

\* C18: peers are authenticated before any request is handled: a connection
\* is handed to the server only if its peer credential was read and its UID
\* is 0, so every connection waiting for dispatch and every request a handler
\* has taken up (with the control-plane calls it made) comes from such a
\* peer; any other peer is closed inside Accept and gets no connection slot.
C18_OnlyRootPeersAreServed ==
    /\ \A r \in Slots :
          (r \in daemon.accepted \/ conns[r].pc # "idle") =>
              /\ daemon.peers[r].cred = "ok"
              /\ daemon.peers[r].uid = 0
    /\ daemon.rejected # NoPeer =>
          /\ daemon.rejected.cred # "ok" \/ daemon.rejected.uid # 0
          /\ daemon.accepted = {}

\* A peer whose credential was read and whose UID is not 0 has been turned
\* away, after a root peer's request was served.
C18_Witness ==
    /\ daemon.rejected.cred = "ok"
    /\ daemon.rejected.uid = 1000
    /\ \E r \in Slots : conns[r].calls # <<>>

\* C19: graceful shutdown order: after SIGTERM or SIGINT every request that
\* was being handled at that moment runs to its response, and only after
\* that is the socket file removed and the process gone.
C19_GracefulShutdownOrder ==
    \A r \in daemon.inflight :
        /\ conns[r].pc # "killed"
        /\ Running(conns[r]) =>
              /\ daemon.socket = "own"
              /\ daemon.phase # "exited"

\* C20: startup is all or nothing: the socket is bound only after the
\* control-plane authentication went well, and when a step of the startup
\* fails the process exits with a status other than 0 and no socket of this
\* run stays at the socket path.
C20_StartupAllOrNothing ==
    /\ daemon.socket = "own" =>
          daemon.phase \notin {"env", "auth", "client", "mkdir", "remove", "listen"}
    /\ (daemon.phase = "exited" /\ daemon.at # "" /\ daemon.at # "serve") =>
          /\ daemon.exit # 0
          /\ daemon.socket # "own"

StepAt(m, step) == CHOOSE k \in 1..Len(m.steps) : m.steps[k] = step

\* C21: cmdAdd invokes the delegate ADD only after the daemon answered /add
\* with success; when the delegate ADD succeeds, no /del request is sent and
\* what the command prints is the delegate's result and nothing else.
C21_DelegateAddAfterAddSucceeded ==
    \A p \in Procs :
        LET m == cmds[p]
        IN  m.cmd = "ADD" =>
              /\ InSteps(m, "delegate ADD") =>
                    /\ m.via = "received"
                    /\ m.derr = <<>>
                    /\ InSteps(m, "request /add")
                    /\ StepAt(m, "request /add") < StepAt(m, "delegate ADD")
              /\ InSteps(m, "delegate returned") =>
                    /\ ~InSteps(m, "request /del")
                    /\ m.out \in {"", m.dres}
                    /\ (Returned(m) /\ m.err = <<>>) => m.out = m.dres
              /\ ~InSteps(m, "delegate returned") => m.out = ""

C21_Witness ==
    \E p \in Procs :
        /\ cmds[p].cmd = "ADD"
        /\ Returned(cmds[p])
        /\ InSteps(cmds[p], "delegate returned")
        /\ cmds[p].err = <<>>
        /\ cmds[p].out = "result-b"

\* C22: the document cmdAdd hands to the delegate carries the port identity
\* and the MAC of the /add response in its CNI args, and an ipam block of type
\* static with one address entry: the response's address, "/", its prefix
\* length, and its gateway; whether the configuration had an args structure,
\* one without a cni entry, or none.
C22_DelegateDocument ==
    \A p \in Procs :
        LET m == cmds[p]
        IN  (m.cmd = "ADD" /\ m.pc = "delegate") =>
              /\ m.stdin.args.set
              /\ m.stdin.args.cni.set
              /\ m.stdin.args.cni.ovn_port = m.resp.port_id
              /\ m.stdin.args.cni.mac = m.resp.mac_address
              /\ m.stdin.ipam.type = "static"
              /\ Len(m.stdin.ipam.addresses) = 1
              /\ m.stdin.ipam.addresses[1].address =
                     <<m.resp.ip_address, "/">> \o m.resp.prefix_length
              /\ m.stdin.ipam.addresses[1].gateway = m.resp.gateway_ip

C22_Witness ==
    \E p \in Procs :
        /\ cmds[p].cmd = "ADD"
        /\ cmds[p].pc = "delegate"
        /\ cmds[p].conf.args.cni.set
        /\ cmds[p].resp.port_id # 0
        /\ cmds[p].resp.ip_address # ""

\* The failures of cmdAdd that follow a successful /add.
LateFailures ==
    {<<"failed to ", a>> : a \in Assemblies \ {"ok"}}
        \cup {<<"failed to delegate: ", "delegate error">>}

\* C27: when cmdAdd returns one of the failures that follow a successful
\* /add, it has sent exactly one /del request, after the /add request, to the
\* same socket path and with the same container ID and network ID.
C27_CompensationMirrorsAdd ==
    \A p \in Procs :
        LET m == cmds[p]
        IN  (m.cmd = "ADD" /\ Returned(m) /\ m.via = "received"
                /\ m.err \in LateFailures) =>
              /\ Len(m.reqs) = 2
              /\ m.reqs[1].path = "/add"
              /\ m.reqs[2].path = "/del"
              /\ m.reqs[2].socket = m.reqs[1].socket
              /\ m.reqs[2].container_id = m.reqs[1].container_id
              /\ m.reqs[2].network_id = m.reqs[1].network_id

C27_Witness ==
    \E p \in Procs :
        /\ cmds[p].cmd = "ADD"
        /\ Returned(cmds[p])
        /\ cmds[p].err = <<"failed to ", "marshal final config">>
        /\ Len(cmds[p].reqs) = 2
        /\ cmds[p].reqs[2].socket = "/run/other.sock"

\* C28: a failed cleanup never replaces the failure that caused it: cmdAdd
\* returns the delegate's failure whatever became of the compensating /del,
\* and /add answers the subnet failure whatever the rollback's delete
\* answered.
C28_CleanupNeverMasks ==
    /\ \A p \in Procs :
          LET m == cmds[p]
          IN  (m.cmd = "ADD" /\ Returned(m) /\ InSteps(m, "delegate failed")) =>
                 m.err = <<"failed to delegate: ", "delegate error">>
    /\ \A r \in Slots :
          RolledBack(conns[r]) =>
             /\ conns[r].status = 500
             /\ conns[r].resp = ErrorResponse(<<"failed to get subnet: ", Upstream>>)

C28_Witness ==
    \E p \in Procs :
        /\ cmds[p].cmd = "ADD"
        /\ Returned(cmds[p])
        /\ InSteps(cmds[p], "delegate failed")
        /\ cmds[p].comp = "error"

WrongMethod(c) ==
    \/ c.route \in {"/add", "/del", "/check"} /\ c.method # "POST"
    \/ c.route = "/health" /\ c.method # "GET"

\* C24: the method check comes first on every route: a request to /add, /del
\* or /check that is not a POST, and one to /health that is not a GET, is
\* answered 405 with an error envelope, whatever its body, and no
\* control-plane call is made for it.
C24_MethodCheckFirst ==
    \A r \in Slots :
        LET c == conns[r]
        IN  (c.pc # "idle" /\ WrongMethod(c)) =>
               /\ Done(c)
               /\ c.status = 405
               /\ c.resp = ErrorResponse(c.resp.error)
               /\ c.resp.error # <<>>
               /\ c.calls = <<>>

C24_Witness ==
    \E r \in Slots :
        /\ Done(conns[r])
        /\ conns[r].route = "/add"
        /\ conns[r].method = "GET"
        /\ conns[r].body.shape = "invalid"
        /\ conns[r].status = 405

\* The control plane's answers to the first j calls of c and of d are the
\* same.
SameAnswers(c, d, j) ==
    /\ j <= Len(c.calls)
    /\ j <= Len(d.calls)
    /\ SubSeq(c.calls, 1, j) = SubSeq(d.calls, 1, j)
    /\ j >= 1 => (c.port = d.port /\ c.listed = d.listed)

\* C25: the daemon keeps nothing between requests: of two requests that are
\* the same, whichever run of the daemon process served each, the one makes
\* the control-plane call the other makes as long as the control plane has
\* answered both alike (a delete is for the same port), and when it has
\* answered all their calls alike the two responses are the same. So a
\* restart between two requests changes neither the response to the later
\* one nor what it asks of the control plane.
C25_ResponsesIgnoreRestarts ==
    \A r, s \in Slots :
        LET c == conns[r]
            d == conns[s]
        IN  (/\ Done(c) /\ Done(d)
             /\ c.route = d.route /\ c.method = d.method /\ c.body = d.body) =>
               \A j \in 0..Len(c.calls) :
                  SameAnswers(c, d, j) =>
                     IF Len(c.calls) = j
                     THEN /\ Len(d.calls) = j
                          /\ c.status = d.status
                          /\ c.resp = d.resp
                     ELSE /\ Len(d.calls) > j
                          /\ c.calls[j + 1].op = d.calls[j + 1].op
                          /\ c.calls[j + 1].op = "delete" =>
                                c.calls[j + 1].id = d.calls[j + 1].id

\* The same /check was served before and after a restart of the daemon; the
\* control plane listed the same port to both and both answered exists:true.
C25_Witness ==
    \E r, s \in Slots :
        LET c == conns[r]
            d == conns[s]
        IN  /\ Done(c) /\ Done(d)
            /\ c.run # d.run
            /\ c.route = "/check" /\ d.route = "/check"
            /\ c.body = d.body
            /\ SameAnswers(c, d, 1)
            /\ Len(c.listed) > 0
            /\ c.status = 200 /\ d.status = 200
            /\ c.resp = d.resp
            /\ c.resp.exists

\* C26: when the subnet fetch of /add fails after the port was created, the
\* handler makes one delete call, for the port it has just created and no
\* other, before it writes the error response; it makes no delete call
\* otherwise.
C26_RollbackDeletesTheCreatedPort ==
    \A r \in Slots :
        LET c == conns[r]
        IN  c.route = "/add" =>
               /\ RolledBack(c) =>
                     /\ Len(c.calls) = 3
                     /\ DeleteCalls(c) = {3}
                     /\ c.calls[1].op = "create"
                     /\ c.calls[3].id = c.calls[1].id
                     /\ c.calls[3].id = c.port.id
               /\ (HasCall(c, "get_subnet", "err") /\ DeleteCalls(c) = {}) =>
                     (~Done(c) /\ c.status = 0)
               /\ ~HasCall(c, "get_subnet", "err") => DeleteCalls(c) = {}

C26_Witness ==
    \E r \in Slots :
        /\ RolledBack(conns[r])
        /\ conns[r].calls[3].out = "ok"
        /\ conns[r].status = 500
        /\ ports # {}

ControlPlaneFailed(c) ==
    \E k \in 1..Len(c.calls) : c.calls[k].out \in {"err", "extract_err"}

\* C29: a request during which a control-plane call failed (the create or the
\* subnet fetch of /add; the list, the extraction or a delete other than 404
\* of /del; the list or the extraction of /check) is answered 500 with an
\* error envelope whose message is not empty and contains the upstream
\* error's text, and with no success body.
C29_ControlPlaneFailureIs500 ==
    \A r \in Slots :
        LET c == conns[r]
        IN  (Done(c) /\ ControlPlaneFailed(c)) =>
               /\ c.status = 500
               /\ c.resp = ErrorResponse(c.resp.error)
               /\ c.resp.error # <<>>
               /\ \E k \in 1..Len(c.resp.error) : c.resp.error[k] = Upstream

C29_Witness ==
    \E r \in Slots :
        /\ Done(conns[r])
        /\ conns[r].route = "/del"
        /\ HasCall(conns[r], "delete", "err")
        /\ conns[r].status = 500

\* C30: when /add succeeds, ip_address is the address of the first fixed
\* address of the created port whose subnet is the requested one, and empty
\* when there is none (the port may have no fixed address at all); the answer
\* is 200 either way and the handler leaves the port in place.
C30_AddressOfRequestedSubnet ==
    [][\A r \in Slots :
          (conns[r].pc = "get_subnet" /\ conns'[r].pc = "done"
              /\ HasCall(conns'[r], "get_subnet", "ok")) =>
             LET f == conns[r].port.fixed_ips
                 sub == conns[r].req.subnet_id
                 ip == conns'[r].resp.ip_address
                 hits == {k \in 1..Len(f) : f[k].subnet_id = sub}
             IN  /\ conns'[r].status = 200
                 /\ conns'[r].resp.kind = "add"
                 /\ hits # {} =>
                       \E k \in hits : /\ \A h \in hits : k <= h
                                        /\ ip = f[k].ip_address
                 /\ hits = {} => ip = ""
                 /\ ports' = ports
                 /\ DeleteCalls(conns'[r]) = {}]_vars

\* /add has answered 200 with an empty ip_address for a port whose only
\* fixed address is on another subnet, and the port is in place.
C30_Witness ==
    \E r \in Slots :
        /\ Done(conns[r])
        /\ conns[r].route = "/add"
        /\ conns[r].status = 200
        /\ Len(conns[r].port.fixed_ips) = 1
        /\ conns[r].port.fixed_ips[1].subnet_id # conns[r].req.subnet_id
        /\ conns[r].resp.ip_address = ""
        /\ conns[r].port.id \in PortIDs

\* The names the envelopes go by on the wire.
WireNames(type) ==
    CASE type \in {"DelRequest", "CheckRequest"} -> {"container_id", "network_id"}
      [] type = "AddRequest" -> {"container_id", "network_id", "subnet_id"}
      [] type = "AddResponse" ->
            {"port_id", "mac_address", "ip_address", "prefix_length", "gateway_ip"}
      [] type = "DelResponse" -> {"ok"}
      [] type = "CheckResponse" -> {"exists"}
      [] type = "ErrorResponse" -> {"error"}

FixedNames ==
    wire.pc \in {"text", "out"} =>
       /\ {wire.text[k].key : k \in 1..Len(wire.text)} = WireNames(wire.in.type)
       /\ Len(wire.text) = Cardinality(WireNames(wire.in.type))

ValidText(v) == \A k \in 1..Len(v) : v[k] # "xFF"

AllValidText(e) ==
    \A f \in DOMAIN e.val : f \in BoolFields \/ ValidText(e.val[f])

\* C23 as stated: every envelope, whatever its field values, is reproduced by
\* serializing and deserializing it, and goes by the fixed lower-snake-case
\* names on the wire.
C23_EveryValueRoundTrips ==
    /\ FixedNames
    /\ wire.pc = "out" => wire.out = wire.in.val

\* C23, amended: every envelope whose strings are valid UTF-8 (empty strings
\* and false booleans among them) is reproduced by serializing and
\* deserializing it; in a string that is not valid UTF-8 each offending byte
\* comes back as U+FFFD; the names on the wire are the fixed ones either way.
C23_ValidTextRoundTrips ==
    /\ FixedNames
    /\ (wire.pc = "out" /\ AllValidText(wire.in)) => wire.out = wire.in.val
    /\ wire.pc = "out" =>
          \A f \in DOMAIN wire.in.val :
             f \notin BoolFields =>
                /\ Len(wire.out[f]) = Len(wire.in.val[f])
                /\ \A k \in 1..Len(wire.in.val[f]) :
                      wire.out[f][k] = IF wire.in.val[f][k] = "xFF" THEN "U+FFFD"
                                       ELSE wire.in.val[f][k]

C23_Witness ==
    /\ wire.pc = "out"
    /\ wire.in.type = "AddResponse"
    /\ wire.in.val["PortID"] = <<"\"">>
    /\ wire.in.val["MACAddress"] = <<"U+FFFD">>
    /\ wire.in.val["IPAddress"] = <<>>
    /\ wire.out = wire.in.val

\* C31: when the list call of a /del request returns no port, the handler
\* answers 200 ok:true, makes no delete call, and the request leaves the
\* control plane's ports as they were.
C31_EmptyListDeletesNothing ==
    [][\A r \in Slots :
          (/\ conns[r].route = "/del"
           /\ conns[r].pc = "list"
           /\ HasCall(conns'[r], "list", "ok")
           /\ conns'[r].listed = <<>>) =>
             /\ Done(conns'[r])
             /\ OkTrue(conns'[r])
             /\ Len(conns'[r].calls) = 1
             /\ DeleteCalls(conns'[r]) = {}
             /\ ports' = ports]_vars

C31_Witness ==
    \E r \in Slots :
        /\ Done(conns[r])
        /\ conns[r].route = "/del"
        /\ conns[r].calls = <<Call("list", 0, "ok")>>
        /\ conns[r].listed = <<>>
        /\ conns[r].status = 200
        /\ ports # {}

\* C32 as stated: every field of the configuration document other than
\* network_id, subnet_id, delegate_plugin and socket_path reaches the delegate
\* of ADD, DEL and CHECK with its value; the port identity, the MAC and the
\* ipam block of ADD are the only things put in.
C32_OtherFieldsPassThrough ==
    \A p \in Procs :
        LET m == cmds[p]
        IN  m.pc = "delegate" =>
              /\ m.stdin.rest = m.conf.doc
              /\ m.cmd \in {"DEL", "CHECK"} =>
                    (m.stdin.args = m.conf.args /\ m.stdin.ipam = NoDoc.ipam)

\* C33: every daemon request of a command (the /add, the compensating /del,
\* the /del of cmdDel, the /check) goes to the configuration's socket_path
\* when that is not empty and to /var/run/openstack-cni/cni.sock otherwise,
\* so all requests of one command use one path.
C33_ChannelPath ==
    \A p \in Procs :
        LET m == cmds[p]
            expected == IF m.conf.socket_path = ""
                        THEN "/var/run/openstack-cni/cni.sock"
                        ELSE m.conf.socket_path
        IN  /\ \A k \in 1..Len(m.reqs) : m.reqs[k].socket = expected
            /\ \A j, k \in 1..Len(m.reqs) : m.reqs[j].socket = m.reqs[k].socket

\* A cmdAdd with a socket_path of its own has sent its /add and its
\* compensating /del, both to that path.
C33_Witness ==
    \E p \in Procs :
        LET m == cmds[p]
        IN  /\ m.cmd = "ADD"
            /\ m.conf.socket_path = "/run/other.sock"
            /\ Len(m.reqs) = 2
            /\ m.reqs[1].path = "/add" /\ m.reqs[2].path = "/del"
            /\ m.reqs[1].socket = "/run/other.sock"
            /\ m.reqs[2].socket = "/run/other.sock"

\* C34 as stated: rejecting a peer in Accept (a peer that is not root, or one
\* whose credential cannot be read) does not stop the service: the daemon is
\* still serving afterwards, unless it was told to stop by a signal.
C34_RejectionKeepsServing ==
    daemon.rejected # NoPeer =>
        \/ daemon.phase = "serving"
        \/ daemon.phase \in {"stopping", "exited"} /\ daemon.exit # 1

\* C35 as stated: the compensating /del of a cmdAdd that failed at the
\* delegate step does not delete the port of another cmdAdd for the same
\* container ID and network that succeeded: here, the one that ran just
\* before it.
C35_CompensationSparesOtherInvocation ==
    [][\A p \in Procs :
          LET m == cmds[p]
          IN  (/\ m.cmd = "ADD"
               /\ m.pc = "compensating"
               /\ m.err = <<"failed to delegate: ", "delegate error">>) =>
                 \A x \in ports \ ports' :
                    ~ /\ x.id = m.prev.port
                      /\ x.attached_for = m.container_id
                      /\ x.network_id = m.conf.network_id]_vars

CreateCalls(c) == {k \in 1..Len(c.calls) : c.calls[k].op = "create"}

SameKey(ps, req) ==
    {x \in ps : x.name = portName(req.container_id)
                 /\ x.network_id = req.network_id}

\* C36: an /add request makes at most one create call and no list call, and
\* exactly one create call that succeeded when it answers 200, with that
\* port in its answer; the create call puts one new port with the derived
\* name on the network, whatever ports of that name are there already; and a
\* port goes away only by a /del request or by the rollback of an /add that
\* fails. So k /add requests answered 200 for one container and network,
\* with no /del in between, leave k ports of the same name.
C36_OnePortPerAdd ==
    [][/\ \A r \in Slots :
             LET c == conns'[r]
             IN  c.route = "/add" =>
                   /\ Cardinality(CreateCalls(c)) <= 1
                   /\ \A k \in 1..Len(c.calls) : c.calls[k].op # "list"
                   /\ (Done(c) /\ c.status = 200) =>
                         /\ HasCall(c, "create", "ok")
                         /\ c.resp.port_id = c.port.id
                         /\ c.port.id = c.calls[1].id
       /\ \A r \in Slots :
             (/\ conns[r].route = "/add"
              /\ conns[r].pc = "create"
              /\ HasCall(conns'[r], "create", "ok")) =>
                 \E x \in ports' \ ports :
                    /\ ports' = ports \cup {x}
                    /\ x.id = conns'[r].port.id
                    /\ x.id \notin {y.id : y \in ports}
                    /\ x \in SameKey(ports', conns[r].req)
                    /\ Cardinality(SameKey(ports', conns[r].req))
                          = Cardinality(SameKey(ports, conns[r].req)) + 1
       /\ \A x \in ports \ ports' :
             \E r \in Slots :
                \/ conns[r].route = "/del" /\ conns[r].pc = "delete"
                \/ /\ conns[r].route = "/add" /\ conns[r].pc = "rollback"
                   /\ conns'[r].status = 500]_vars

\* Two /add requests for one container and network have both answered 200,
\* each with a port of its own, and both ports are on the network under the
\* same name.
C36_Witness ==
    \E r, s \in Slots :
        /\ r # s
        /\ conns[r].route = "/add" /\ conns[s].route = "/add"
        /\ Done(conns[r]) /\ conns[r].status = 200
        /\ Done(conns[s]) /\ conns[s].status = 200
        /\ conns[r].req.container_id = conns[s].req.container_id
        /\ conns[r].req.network_id = conns[s].req.network_id
        /\ conns[r].resp.port_id # conns[s].resp.port_id
        /\ \E x, y \in SameKey(ports, conns[r].req) :
              x.id = conns[r].resp.port_id /\ y.id = conns[s].resp.port_id

\* C37: when the daemon is reachable and the control plane healthy, cmdDel
\* after one or more successful cmdAdd invocations for the same container ID
\* and configuration leaves no port with the derived name on the network, and
\* a cmdCheck that follows fails with "not found".
C37_LifecycleRoundTrip ==
    \A p \in Procs :
        LET m == cmds[p]
            key == [container_id |-> m.prev.container_id,
                    network_id |-> m.prev.conf.network_id]
            answered == m.pc = "returned" /\ m.via = "received" /\ m.derr = <<>>
        IN  /\ (m.cmd = "DEL" /\ m.prev.did = "add" /\ answered) =>
                  (SameKey(ports, key) = {} /\ m.err = <<>>)
            /\ (m.pc = "idle" /\ m.prev.did = "add-del") =>
                  SameKey(ports, key) = {}
            /\ (m.cmd = "CHECK" /\ m.prev.did = "add-del" /\ answered) =>
                  m.err = <<"neutron port ", "not found">>

\* Two cmdAdd invocations for one container and configuration succeeded, a
\* cmdDel followed, and the cmdCheck after it has failed with "not found".
C37_Witness ==
    \E p \in Procs :
        LET m == cmds[p]
        IN  /\ m.cmd = "CHECK"
            /\ m.pc = "returned"
            /\ m.prev.did = "add-del"
            /\ m.prev.n >= 2
            /\ m.via = "received"
            /\ m.err = <<"neutron port ", "not found">>
            /\ ports = {}

\* C38 as stated: for every container ID, the short ones and the empty one
\* included, the single-binary plugin derives in cmdAdd, cmdDel and cmdCheck
\* the name the daemon's portName derives in the handler of the same
\* operation.
C38_PluginDerivesDaemonName ==
    bin.named =>
        LET req == [NoReq EXCEPT !.container_id = bin.container_id]
        IN  /\ ~bin.name.panics
            /\ bin.cmd = "ADD" => bin.name.name = AddName(req)
            /\ bin.cmd = "DEL" => bin.name.name = DelName(req)
            /\ bin.cmd = "CHECK" => bin.name.name = CheckName(req)

====
